---- MODULE Spec2Model ----
(***************************************************************************)
(* Dialect-abstraction layer of db-hub's frontend: classification of a     *)
(* connection target, retargeting of a raw connection string, quick-action *)
(* SQL generation and single-row update/delete from the results grid.      *)
(*                                                                         *)
(* JavaScript strings that the code inspects character by character        *)
(* (connection strings, database names) are sequences of one-character     *)
(* strings; null is the one-element sequence Null, which no real string    *)
(* equals because its element is not a single character.                   *)
(***************************************************************************)
EXTENDS Integers, Sequences, FiniteSets, TLC

VARIABLES
    \* resolver calls (services/databaseService.js)
    connectionString,   \* argument of getDbTypeFromStr / getConnectionStringForDb
    dbName,             \* argument dbName of getConnectionStringForDb
    dbType,             \* value returned by getDbTypeFromStr, or NotCalled
    resolved,           \* outcome of getConnectionStringForDb, NoOutcome before the call
    \* AppContent state (App.jsx)
    selectedDatabase,   \* symbolic target name or the id of a stored connection
    customConnection,   \* raw connection string of the selected stored connection
    currentDbName,      \* database App holds as selected, Null if none
    currentDatabase,    \* database DatabaseExplorer holds as selected, Null if none
    queryResult,        \* QueryResult shown in the grid
    queryError,         \* message of a thrown execution error, Null if none
    isExecuting,
    queryContext,       \* table context of the loaded quick action
    \* QueryEditor state
    query,              \* text of the editor
    \* QueryResults state
    editingRowIndex,    \* index of the row being edited, NoIndex if none
    editData,           \* edit buffer
    isSaving,
    deleteModal,        \* {show, row, index}
    searchTerm,         \* text of the grid's search box
    sortConfig,         \* {key, direction}, key "" when null
    \* requests in flight and what the backend has received
    quickActions,       \* handleQuickAction calls awaiting getPrimaryKeys
    lastQuickAction,    \* observation: the last handleQuickAction call and its end
    lastExecuted,       \* observation: the last handleExecuteQuery call that ended
    lastMutation,       \* observation: the last handleUpdateRow/handleDeleteRow that ended
    displayed,          \* observation: the executions queryResult and queryError come from
    execCalls,          \* handleExecuteQuery calls awaiting executeQuery or addHistory
    updateCalls,        \* handleUpdateRow calls awaiting updateTableRow
    deleteCalls,        \* handleDeleteRow calls awaiting deleteTableRow
    history,            \* history entries the backend has stored
    \* metadata services (services/databaseService.js)
    rawResult,          \* what executeQuery answers to a catalog query
    databaseList,       \* outcome of getDatabases, NoOutcome before the call
    lastServiceCall,    \* the last service call: its outcome and the requests it sent
    \* Header state (connection manager)
    testStatus,
    testMessage,
    \* DatabaseExplorer state
    objects,            \* names shown per category
    loading,
    toast,              \* the last toast shown, NoToast if none
    databases,          \* database names listed for the connection
    listLoads,          \* loadDatabaseList calls awaiting getDatabases
    objectLoads,        \* loadDatabaseObjects calls awaiting their five fetches
    dbDeletes,          \* confirmDelete calls awaiting deleteDatabase
    fetched,            \* what the five fetches of the last joined load answered
    expandedTables,     \* tables whose details are unfolded
    tableDetails,       \* details loaded per table
    detailLoads,        \* toggleTableExpansion calls awaiting their four fetches
    lastFailure         \* the last failed fetch: its message and the toast shown for it

resolverVars == <<connectionString, dbName, dbType, resolved>>
targetVars == <<selectedDatabase, customConnection, currentDbName, currentDatabase>>
execVars == <<queryResult, queryError, isExecuting, execCalls, history>>
quickVars == <<queryContext, query, quickActions>>
gridVars == <<editingRowIndex, editData, isSaving, deleteModal, searchTerm, sortConfig>>
mutationVars == <<updateCalls, deleteCalls>>
appVars == <<targetVars, execVars, quickVars, gridVars, mutationVars>>
serviceVars == <<rawResult, databaseList, lastServiceCall>>
headerVars == <<testStatus, testMessage>>
detailVars == <<expandedTables, tableDetails, detailLoads>>
explorerVars ==
    <<objects, loading, toast, objectLoads, fetched, detailVars, lastFailure,
      databases, listLoads, dbDeletes>>
metadataVars == <<serviceVars, explorerVars, headerVars>>
vars == <<resolverVars, appVars, lastQuickAction, lastExecuted, lastMutation, displayed, metadataVars>>

Null == <<"null">>
Undefined == "<undefined>"
NotCalled == "NotCalled"

(***************************************************************************)
(* JavaScript String primitives, 0-based as in the language.               *)
(***************************************************************************)
Max(a, b) == IF a >= b THEN a ELSE b
Min(a, b) == IF a <= b THEN a ELSE b

\* String.prototype.startsWith
StartsWith(str, p) == Len(str) >= Len(p) /\ SubSeq(str, 1, Len(p)) = p

\* String.prototype.indexOf: index of the first occurrence, -1 if none
IndexOf(str, p) ==
    LET hits == {i \in 0..(Len(str) - Len(p)) : SubSeq(str, i + 1, i + Len(p)) = p}
    IN  IF hits = {} THEN -1 ELSE CHOOSE i \in hits : \A j \in hits : i <= j

\* String.prototype.lastIndexOf: index of the last occurrence, -1 if none
LastIndexOf(str, p) ==
    LET hits == {i \in 0..(Len(str) - Len(p)) : SubSeq(str, i + 1, i + Len(p)) = p}
    IN  IF hits = {} THEN -1 ELSE CHOOSE i \in hits : \A j \in hits : i >= j

\* String.prototype.substring(start, end): arguments clamped to 0..length
\* and swapped when start > end
Substring(str, start, end) ==
    LET s == Min(Max(start, 0), Len(str))
        e == Min(Max(end, 0), Len(str))
    IN  SubSeq(str, Min(s, e) + 1, Max(s, e))

\* String.prototype.replace with a string pattern: the first occurrence only
Replace(str, pat, rep) ==
    LET i == IndexOf(str, pat)
    IN  IF i = -1 THEN str
        ELSE SubSeq(str, 1, i) \o rep \o SubSeq(str, i + Len(pat) + 1, Len(str))

\* String.prototype.split with a non-empty string separator
RECURSIVE Split(_, _)
Split(str, sep) ==
    LET i == IndexOf(str, sep)
    IN  IF i = -1 THEN <<str>>
        ELSE <<SubSeq(str, 1, i)>> \o Split(SubSeq(str, i + Len(sep) + 1, Len(str)), sep)

(***************************************************************************)
(* The WHATWG URL parser as far as getConnectionStringForDb relies on it:  *)
(* new URL(x) throws when x has no scheme, when the authority's port is    *)
(* not a number, when the host holds a forbidden character, or when a      *)
(* special scheme (http after the prefix replacement) has an empty host.   *)
(***************************************************************************)
Letters ==
    {"a", "b", "c", "d", "e", "f", "g", "h", "i", "j", "k", "l", "m", "n", "o",
     "p", "q", "r", "s", "t", "u", "v", "w", "x", "y", "z", "X"}
Digits == {"0", "1", "2", "3", "4", "5", "6", "7", "8", "9"}
SchemeChars == Letters \cup Digits \cup {"+", "-", "."}
ForbiddenHostChars == {" ", "<", ">", "^", "|", "[", "]", "#", "@", ":"}
SpecialSchemes ==
    {<<"h", "t", "t", "p">>, <<"h", "t", "t", "p", "s">>, <<"f", "t", "p">>,
     <<"w", "s">>, <<"w", "s", "s">>}

\* number of "/" characters str starts with
LeadingSlashes(str) ==
    CHOOSE k \in 0..Len(str) :
        /\ \A j \in 1..k : str[j] = "/"
        /\ (k < Len(str) => str[k + 1] # "/")

\* the authority of a URL remainder: up to the first "/", "?" or "#"
AuthorityOf(rest) ==
    LET ends == {j \in 1..Len(rest) : rest[j] \in {"/", "?", "#"}}
    IN  IF ends = {} THEN rest
        ELSE SubSeq(rest, 1, (CHOOSE j \in ends : \A k \in ends : j <= k) - 1)

UrlParses(input) ==
    LET i == IndexOf(input, <<":">>)
        scheme == SubSeq(input, 1, i)
        rest == SubSeq(input, i + 2, Len(input))
        special == scheme \in SpecialSchemes
        hasAuthority == special \/ StartsWith(rest, <<"/", "/">>)
        afterSlashes ==
            IF special THEN SubSeq(rest, LeadingSlashes(rest) + 1, Len(rest))
            ELSE SubSeq(rest, 3, Len(rest))
        authority == AuthorityOf(afterSlashes)
        at == LastIndexOf(authority, <<"@">>)
        hostport == SubSeq(authority, at + 2, Len(authority))
        colon == LastIndexOf(hostport, <<":">>)
        host == IF colon = -1 THEN hostport ELSE SubSeq(hostport, 1, colon)
        port == IF colon = -1 THEN <<>> ELSE SubSeq(hostport, colon + 2, Len(hostport))
    IN  /\ i >= 1
        /\ input[1] \in Letters
        /\ \A k \in 1..i : input[k] \in SchemeChars
        /\ hasAuthority =>
              /\ special => host # <<>>
              /\ \A k \in 1..Len(port) : port[k] \in Digits
              /\ \A k \in 1..Len(host) : host[k] \notin ForbiddenHostChars

(***************************************************************************)
(* ConnectionResolver: services/databaseService.js                         *)
(***************************************************************************)
StrMysql == <<"m", "y", "s", "q", "l">>
StrPostgresql == <<"p", "o", "s", "t", "g", "r", "e", "s", "q", "l">>
StrPostgres == <<"p", "o", "s", "t", "g", "r", "e", "s">>
StrMssql == <<"m", "s", "s", "q", "l">>
MysqlPrefix == <<"m", "y", "s", "q", "l", "+", "p", "y", "m", "y", "s", "q", "l", ":", "/", "/">>
PostgresPrefix == <<"p", "o", "s", "t", "g", "r", "e", "s", "q", "l", "+", "p", "s", "y", "c", "o", "p", "g", "2", ":", "/", "/">>
MssqlPrefix == <<"m", "s", "s", "q", "l", "+", "p", "y", "o", "d", "b", "c", ":", "/", "/">>
HttpPrefix == <<"h", "t", "t", "p", ":", "/", "/">>

Dialects == {"mysql", "postgres", "sqlserver"}

\* JavaScript falsiness of a string-or-null value: !str
IsFalsy(str) == str = Null \/ str = <<>>

\* getDbTypeFromStr testing the long prefix 'postgresql' only
getDbTypeFromStr_PostgresqlOnly(str) ==
    IF IsFalsy(str) THEN "mysql"
    ELSE IF StartsWith(str, StrMysql) THEN "mysql"
    ELSE IF StartsWith(str, StrPostgresql) THEN "postgres"
    ELSE IF StartsWith(str, StrMssql) THEN "sqlserver"
    ELSE "mysql"

\* getDbTypeFromStr without the final default: nothing matched, undefined
getDbTypeFromStr_NoDefault(str) ==
    IF IsFalsy(str) THEN "mysql"
    ELSE IF StartsWith(str, StrMysql) THEN "mysql"
    ELSE IF StartsWith(str, StrPostgresql) \/ StartsWith(str, StrPostgres) THEN "postgres"
    ELSE IF StartsWith(str, StrMssql) THEN "sqlserver"
    ELSE "undefined"

getDbTypeFromStr(str) ==
    IF IsFalsy(str) THEN "mysql"
    ELSE IF StartsWith(str, StrMysql) THEN "mysql"
    ELSE IF StartsWith(str, StrPostgresql) \/ StartsWith(str, StrPostgres) THEN "postgres"
    ELSE IF StartsWith(str, StrMssql) THEN "sqlserver"
    ELSE "mysql"

\* The outcome of a call: threw is TRUE when the call raises to its caller.
Returned(v) == [called |-> TRUE, threw |-> FALSE, value |-> v]
NoOutcome == [called |-> FALSE, threw |-> FALSE, value |-> Null]

\* getConnectionStringForDb appending the name after the whole string
getConnectionStringForDb_Appending(connStr, newDb) ==
    IF IsFalsy(connStr) \/ IsFalsy(newDb) THEN Returned(connStr)
    ELSE Returned(connStr \o <<"/">> \o newDb)

getConnectionStringForDb(connStr, newDb) ==
    IF IsFalsy(connStr) \/ IsFalsy(newDb) THEN Returned(connStr)
    ELSE
        LET type == getDbTypeFromStr(connStr)
            urlInput == Replace(Replace(Replace(connStr, MysqlPrefix, HttpPrefix),
                                        PostgresPrefix, HttpPrefix),
                                MssqlPrefix, HttpPrefix)
        IN  IF ~UrlParses(urlInput) THEN Returned(connStr)
            ELSE IF type = "sqlserver" THEN
                LET parts == Split(connStr, <<"?">>)
                    base == Substring(parts[1], 0, LastIndexOf(parts[1], <<"/">>))
                    suffix == IF Len(parts) > 1 THEN <<"?">> \o parts[2] ELSE <<>>
                IN  Returned(base \o <<"/">> \o newDb \o suffix)
            ELSE
                LET base == Substring(connStr, 0, LastIndexOf(connStr, <<"/">>))
                IN  Returned(base \o <<"/">> \o newDb)

(***************************************************************************)
(* Bounds of the model and the database it runs against.                   *)
(***************************************************************************)
MaxRows == 1            \* rows a row-returning statement returns
MaxInFlight == 1        \* requests awaiting their answer at one time
MaxHistory == 1         \* history entries the backend stores

\* requests awaiting their answer
InFlight ==
    Cardinality(quickActions) + Cardinality(execCalls)
        + Cardinality(updateCalls) + Cardinality(deleteCalls)

\* the tables of the database and what getPrimaryKeys answers for each
Tables == {"orders", "logs"}
PrimaryKeysOf(table) == IF table = "orders" THEN <<"id">> ELSE <<>>

(***************************************************************************)
(* JavaScript objects are functions from their keys; a missing key reads   *)
(* as undefined.                                                           *)
(***************************************************************************)
Get(obj, key) == IF key \in DOMAIN obj THEN obj[key] ELSE Undefined
\* {...a, ...b}
Merge(a, b) ==
    [k \in (DOMAIN a) \cup (DOMAIN b) |-> IF k \in DOMAIN b THEN b[k] ELSE a[k]]
\* JSON.stringify of a request body drops the keys whose value is undefined
JsonObject(obj) == [k \in {j \in DOMAIN obj : obj[j] # Undefined} |-> obj[k]]
EmptyObject == [k \in {} |-> Undefined]
Range(seq) == {seq[i] : i \in 1..Len(seq)}

(***************************************************************************)
(* QueryResult.  A row is an object with an identity (ref), compared by    *)
(* === in confirmDeleteRow; new objects take the smallest unused refs.     *)
(***************************************************************************)
NoError == ""
\* editingRowIndex and deleteModal.index when null
NoIndex == -1
NullResult ==
    [isNull |-> TRUE, success |-> FALSE, columns |-> <<>>, hasRows |-> FALSE,
     rows |-> <<>>, hasRowsAffected |-> FALSE, rows_affected |-> 0, message |-> ""]

RowCells(columns, i) ==
    [c \in Range(columns) |-> IF c = "id" THEN ToString(i) ELSE "new"]

\* what the executor answers: the rows of the statement, or an engine error
RowsResponse(columns) ==
    [isNull |-> FALSE, success |-> TRUE, columns |-> columns, hasRows |-> TRUE,
     rows |-> [i \in 1..MaxRows |-> [ref |-> 0, cells |-> RowCells(columns, i)]],
     hasRowsAffected |-> FALSE, rows_affected |-> 0, message |-> ""]
FailedResponse ==
    [isNull |-> FALSE, success |-> FALSE, columns |-> <<>>, hasRows |-> FALSE,
     rows |-> <<>>, hasRowsAffected |-> FALSE, rows_affected |-> 0,
     message |-> "syntax error"]
\* orders has the columns id and status, logs the column status
ColumnsOf(statement) ==
    IF statement \in {"SELECT * FROM orders LIMIT 100; ", "SELECT TOP 100 * FROM orders; "}
    THEN <<"id", "status">>
    ELSE <<"status">>
ExecutorResponses(statement) == {RowsResponse(ColumnsOf(statement)), FailedResponse}

HiddenModal == [show |-> FALSE, row |-> [ref |-> 0, cells |-> EmptyObject], index |-> NoIndex]

RefsOf(rows) == {rows[i].ref : i \in 1..Len(rows)}
LiveRefs ==
    RefsOf(queryResult.rows)
        \cup (IF deleteModal.show THEN {deleteModal.row.ref} ELSE {})
        \cup UNION {RefsOf(c.snapshot.rows) : c \in updateCalls \cup deleteCalls}

SmallestUnused(used) ==
    CHOOSE r \in 1..(Cardinality(used) + 1) :
        r \notin used /\ \A q \in 1..(r - 1) : q \in used

RECURSIVE WithFreshRefs(_, _)
WithFreshRefs(rows, used) ==
    IF rows = <<>> THEN <<>>
    ELSE LET r == SmallestUnused(used)
         IN  <<[ref |-> r, cells |-> Head(rows).cells]>>
                 \o WithFreshRefs(Tail(rows), used \cup {r})

(***************************************************************************)
(* Connection targets.  selectedDatabase is the string naming a            *)
(* pre-provisioned server or the integer id of a stored connection.        *)
(***************************************************************************)
Symbolic(name) == [kind |-> "string", name |-> name, id |-> 0]
Stored(id) == [kind |-> "number", name |-> "", id |-> id]

\* DatabaseExplorer's isCustom: String(selectedDatabase) starts with 'custom'
\* or is none of mysql, postgres, sqlserver
IsCustomTarget(sel) ==
    sel.kind = "number" \/ sel.name \notin {"mysql", "postgres", "sqlserver"}

\* App's isCustomConnection: a string must start with 'custom_', any other
\* type counts as custom
IsCustomConnection(sel) ==
    IF sel.kind = "string"
    THEN Len(sel.name) >= 7 /\ SubSeq(sel.name, 1, 7) = "custom_"
    ELSE TRUE

\* database_type of a request issued by App
AppDbType(sel) == IF IsCustomConnection(sel) THEN "custom" ELSE sel.name
\* database_type of a request issued by DatabaseExplorer
ExplorerDbType(sel) == IF IsCustomTarget(sel) THEN "custom" ELSE sel.name

\* connection_string of a request issued by App
AppConnectionString(sel, conn, db) ==
    IF ~IsCustomConnection(sel) THEN Null
    ELSE IF ~IsFalsy(db) THEN getConnectionStringForDb(conn, db).value
    ELSE conn

\* connection_string of a request issued by DatabaseExplorer
ExplorerConnectionString(sel, conn, db) ==
    IF ~IsCustomTarget(sel) THEN Null
    ELSE IF ~IsFalsy(db) THEN getConnectionStringForDb(conn, db).value
    ELSE conn

(***************************************************************************)
(* DatabaseExplorer quick actions                                          *)
(***************************************************************************)
IsFalsySql(sql) == sql = "" \/ sql = Undefined

generateSQL(sel, action, objectType, objectName) ==
    LET type == IF sel = Symbolic("sqlserver") THEN "sqlserver"
                ELSE IF sel = Symbolic("postgres") THEN "postgres"
                ELSE "mysql"
    IN  CASE action = "select100" ->
                IF type = "sqlserver" THEN "SELECT TOP 100 * FROM " \o objectName \o "; "
                ELSE IF type = "postgres" THEN "SELECT * FROM " \o objectName \o " LIMIT 100; "
                ELSE "SELECT * FROM " \o objectName \o " LIMIT 100; "
          [] action = "count" ->
                "SELECT COUNT(*) AS total_rows FROM " \o objectName \o "; "
          [] action = "describe" ->
                IF type = "sqlserver" THEN "EXEC sp_help '" \o objectName \o "'; "
                ELSE IF type = "postgres" THEN "\\d + " \o objectName \o " "
                ELSE "DESCRIBE " \o objectName \o "; "
          [] action = "selectAll" ->
                "SELECT * FROM " \o objectName \o "; "
          [] action = "showCreate" ->
                IF objectType = "views" THEN
                    IF type = "sqlserver"
                    THEN "SELECT OBJECT_DEFINITION(OBJECT_ID('" \o objectName
                             \o "')) AS ViewDefinition; "
                    ELSE IF type = "postgres"
                    THEN "SELECT pg_get_viewdef('" \o objectName \o "', true); "
                    ELSE "SHOW CREATE VIEW " \o objectName \o "; "
                ELSE IF objectType = "procedures" THEN
                    IF type = "sqlserver" THEN "EXEC sp_helptext '" \o objectName \o "'; "
                    ELSE IF type = "postgres"
                    THEN "SELECT pg_get_functiondef((SELECT oid FROM pg_proc WHERE proname = '"
                             \o objectName \o "' LIMIT 1)); "
                    ELSE "SHOW CREATE PROCEDURE " \o objectName \o "; "
                ELSE IF objectType = "functions" THEN
                    IF type = "sqlserver" THEN "EXEC sp_helptext '" \o objectName \o "'; "
                    ELSE IF type = "postgres"
                    THEN "SELECT pg_get_functiondef((SELECT oid FROM pg_proc WHERE proname = '"
                             \o objectName \o "' LIMIT 1)); "
                    ELSE "SHOW CREATE FUNCTION " \o objectName \o "; "
                ELSE IF objectType = "triggers" THEN
                    IF type = "sqlserver" THEN "EXEC sp_helptext '" \o objectName \o "'; "
                    ELSE IF type = "postgres"
                    THEN "SELECT pg_get_triggerdef((SELECT oid FROM pg_trigger WHERE tgname = '"
                             \o objectName \o "' LIMIT 1)); "
                    ELSE "SHOW CREATE TRIGGER " \o objectName \o "; "
                ELSE Undefined
          [] action = "execute" ->
                IF objectType = "procedures" THEN
                    IF type = "sqlserver" THEN "EXEC " \o objectName \o "; "
                    ELSE IF type = "postgres" THEN "CALL " \o objectName \o " (); "
                    ELSE "CALL " \o objectName \o " (); "
                ELSE IF objectType = "functions" THEN
                    IF type = "sqlserver" THEN "SELECT dbo." \o objectName \o " (); "
                    ELSE IF type = "postgres" THEN "SELECT " \o objectName \o " (); "
                    ELSE "SELECT " \o objectName \o " (); "
                ELSE Undefined
          [] OTHER -> ""

\* queryContext: null, or {tableName, primaryKeys}
NullContext == [isNull |-> TRUE, tableName |-> "", primaryKeys |-> <<>>]
TableContext(table, pks) == [isNull |-> FALSE, tableName |-> table, primaryKeys |-> pks]

\* The end of handleQuickAction: a truthy sql is handed to App.handleLoadQuery,
\* which the editor's effect copies into its text; a falsy one is dropped.
LoadOrIgnore(sql, metadata) ==
    IF IsFalsySql(sql)
    THEN UNCHANGED <<query, queryContext>>
    ELSE /\ query' = sql
         /\ queryContext' = metadata

NeedsPrimaryKeys(action, objectType) ==
    objectType = "tables" /\ action \in {"select100", "selectAll"}

\* handleQuickAction up to its await of getPrimaryKeys, or to its end
HandleQuickAction(action, objectType, objectName) ==
    LET sql == generateSQL(selectedDatabase, action, objectType, objectName)
    IN  /\ IF NeedsPrimaryKeys(action, objectType)
           THEN /\ InFlight < MaxInFlight
                /\ quickActions' = quickActions \cup
                      {[action |-> action, objectType |-> objectType,
                        objectName |-> objectName, sql |-> sql,
                        database_type |-> ExplorerDbType(selectedDatabase),
                        connection_string |->
                            ExplorerConnectionString(selectedDatabase, customConnection,
                                                     currentDatabase)]}
                /\ UNCHANGED <<query, queryContext>>
           ELSE /\ LoadOrIgnore(sql, NullContext)
                /\ UNCHANGED quickActions
        /\ UNCHANGED <<resolverVars, metadataVars, targetVars, execVars, gridVars, mutationVars>>

\* getPrimaryKeys answers: handleQuickAction runs from its await to its end
QuickActionPrimaryKeys(call, ok) ==
    /\ call \in quickActions
    /\ quickActions' = quickActions \ {call}
    /\ LoadOrIgnore(call.sql,
                    IF ok THEN TableContext(call.objectName, PrimaryKeysOf(call.objectName))
                    ELSE NullContext)
    /\ UNCHANGED <<resolverVars, metadataVars, targetVars, execVars, gridVars, mutationVars>>

(***************************************************************************)
(* QueryResults: the results grid                                          *)
(***************************************************************************)
\* App passes canEdit and primaryKeys to the grid
CanEdit ==
    /\ ~queryContext.isNull
    /\ queryContext.tableName # ""
    /\ Len(queryContext.primaryKeys) > 0
PrimaryKeysProp == IF queryContext.isNull THEN <<>> ELSE queryContext.primaryKeys

\* the grid renders the table of rows only for a successful result without
\* rows_affected and without an execution error
TableShown ==
    /\ ~queryResult.isNull
    /\ queryError = NoError
    /\ queryResult.success
    /\ ~queryResult.hasRowsAffected

\* String.prototype.includes
Includes(text, part) ==
    \E i \in 1..(Len(text) - Len(part) + 1) : SubSeq(text, i, i + Len(part) - 1) = part

\* String.prototype.toLowerCase
UpperCase == "ABCDEFGHIJKLMNOPQRSTUVWXYZ"
LowerCase == "abcdefghijklmnopqrstuvwxyz"
RECURSIVE ToLowerCase(_)
ToLowerCase(str) ==
    IF str = "" THEN ""
    ELSE LET c == SubSeq(str, 1, 1)
             hits == {i \in 1..Len(UpperCase) : SubSeq(UpperCase, i, i) = c}
         IN  (IF hits = {} THEN c ELSE LET i == CHOOSE h \in hits : TRUE
                                       IN  SubSeq(LowerCase, i, i))
                 \o ToLowerCase(SubSeq(str, 2, Len(str)))

\* a > b on the cell values of the model, which JavaScript compares as strings
Collation == <<"1", "2", "3", "new", "shipped">>
GreaterThan(a, b) ==
    LET at(v) == CHOOSE i \in 1..Len(Collation) : Collation[i] = v
    IN  at(a) > at(b)

NoSort == [key |-> "", direction |-> "asc"]

\* rows.filter of processedRows: some value of the row includes the term
Matches(row, term) ==
    \E k \in DOMAIN row.cells : Includes(ToLowerCase(row.cells[k]), ToLowerCase(term))
RECURSIVE FilterRows(_, _)
FilterRows(rows, term) ==
    IF rows = <<>> THEN <<>>
    ELSE (IF Matches(Head(rows), term) THEN <<Head(rows)>> ELSE <<>>)
            \o FilterRows(Tail(rows), term)

\* the comparator of rows.sort
CompareRows(a, b, config) ==
    LET aValue == Get(a.cells, config.key)
        bValue == Get(b.cells, config.key)
        comparison == IF GreaterThan(aValue, bValue) THEN 1 ELSE -1
    IN  IF aValue = bValue THEN 0
        ELSE IF config.direction = "asc" THEN comparison ELSE -comparison

\* Array.prototype.sort is stable: a row goes behind the rows not after it
RECURSIVE SortRows(_, _)
SortRows(rows, config) ==
    IF rows = <<>> THEN <<>>
    ELSE LET front == SortRows(SubSeq(rows, 1, Len(rows) - 1), config)
             last == rows[Len(rows)]
             k == Cardinality({i \in 1..Len(front) : CompareRows(front[i], last, config) <= 0})
         IN  SubSeq(front, 1, k) \o <<last>> \o SubSeq(front, k + 1, Len(front))

processedRows ==
    IF ~queryResult.hasRows THEN <<>>
    ELSE LET shown == IF searchTerm # "" THEN FilterRows(queryResult.rows, searchTerm)
                      ELSE queryResult.rows
         IN  IF sortConfig.key # "" THEN SortRows(shown, sortConfig) ELSE shown

setSearchTerm(term) ==
    /\ TableShown
    /\ searchTerm' = term
    /\ UNCHANGED <<editingRowIndex, editData, isSaving, deleteModal, sortConfig>>
    /\ UNCHANGED <<resolverVars, metadataVars, targetVars, execVars, quickVars, mutationVars>>

requestSort(key) ==
    /\ TableShown
    /\ key \in Range(queryResult.columns)
    /\ sortConfig' =
          [key |-> key,
           direction |-> IF sortConfig.key = key /\ sortConfig.direction = "asc"
                         THEN "desc" ELSE "asc"]
    /\ UNCHANGED <<editingRowIndex, editData, isSaving, deleteModal, searchTerm>>
    /\ UNCHANGED <<resolverVars, metadataVars, targetVars, execVars, quickVars, mutationVars>>

RowRendered(index) == TableShown /\ index >= 0 /\ index < Len(processedRows)

startEdit(index) ==
    /\ RowRendered(index)
    /\ CanEdit
    /\ editingRowIndex # index
    /\ editingRowIndex' = index
    /\ editData' = processedRows[index + 1].cells
    /\ UNCHANGED <<isSaving, deleteModal>>
    /\ UNCHANGED <<searchTerm, sortConfig>>
    /\ UNCHANGED <<resolverVars, metadataVars, targetVars, execVars, quickVars, mutationVars>>

handleEditChange(column, value) ==
    /\ RowRendered(editingRowIndex)
    /\ column \in Range(queryResult.columns)
    /\ column \notin Range(PrimaryKeysProp)
    /\ editData' = Merge(editData, [c \in {column} |-> value])
    /\ UNCHANGED <<editingRowIndex, isSaving, deleteModal>>
    /\ UNCHANGED <<searchTerm, sortConfig>>
    /\ UNCHANGED <<resolverVars, metadataVars, targetVars, execVars, quickVars, mutationVars>>

cancelEdit ==
    /\ RowRendered(editingRowIndex)
    /\ CanEdit
    /\ ~isSaving
    /\ editingRowIndex' = NoIndex
    /\ editData' = EmptyObject
    /\ UNCHANGED <<isSaving, deleteModal>>
    /\ UNCHANGED <<searchTerm, sortConfig>>
    /\ UNCHANGED <<resolverVars, metadataVars, targetVars, execVars, quickVars, mutationVars>>

\* handleUpdateRow and handleDeleteRow refuse a call without table context
MissingTableContext ==
    queryContext.isNull \/ queryContext.tableName = ""

\* pkData as the handlers build it from queryContext.primaryKeys
PkData(rowData) ==
    [pk \in Range(queryContext.primaryKeys) |-> Get(rowData, pk)]

\* updateTableRow: the body posted to /api/query/data/update
UpdateRequest(pkData, newData) ==
    [kind |-> "update",
     database_type |-> AppDbType(selectedDatabase),
     table_name |-> queryContext.tableName,
     pkData |-> pkData,
     pk_data |-> JsonObject(pkData),
     new_data |-> JsonObject(newData),
     connection_string |->
         AppConnectionString(selectedDatabase, customConnection, currentDbName)]

\* deleteTableRow: the body posted to /api/query/data/delete
DeleteRequest(pkData) ==
    [kind |-> "delete",
     database_type |-> AppDbType(selectedDatabase),
     table_name |-> queryContext.tableName,
     pkData |-> pkData,
     pk_data |-> JsonObject(pkData),
     new_data |-> EmptyObject,
     connection_string |->
         AppConnectionString(selectedDatabase, customConnection, currentDbName)]

\* saveEdit calling handleUpdateRow up to its await of updateTableRow
saveEdit(index) ==
    /\ RowRendered(index)
    /\ CanEdit
    /\ editingRowIndex = index
    /\ ~isSaving
    /\ IF MissingTableContext
       THEN UNCHANGED <<isSaving, updateCalls>>
       ELSE LET row == processedRows[index + 1]
                request == UpdateRequest(PkData(row.cells), editData)
            IN  /\ InFlight < MaxInFlight
                /\ isSaving' = TRUE
                /\ updateCalls' = updateCalls \cup
                      {[rowIndex |-> index, newRowData |-> editData,
                        snapshot |-> queryResult, request |-> request]}
    /\ UNCHANGED <<editingRowIndex, editData, deleteModal, deleteCalls>>
    /\ UNCHANGED <<searchTerm, sortConfig>>
    /\ UNCHANGED <<resolverVars, metadataVars, targetVars, execVars, quickVars>>

\* updateTableRow answers: handleUpdateRow and saveEdit run to their ends
UpdateReturn(call, outcome) ==
    /\ call \in updateCalls
    /\ updateCalls' = updateCalls \ {call}
    /\ isSaving' = FALSE
    /\ IF outcome = "truthy"
       THEN LET old == call.snapshot.rows[call.rowIndex + 1]
                new == [ref |-> SmallestUnused(LiveRefs),
                        cells |-> Merge(old.cells, call.newRowData)]
            IN  /\ queryResult' =
                      [call.snapshot EXCEPT !.rows[call.rowIndex + 1] = new]
                /\ editingRowIndex' = NoIndex
                /\ editData' = EmptyObject
       ELSE UNCHANGED <<queryResult, editingRowIndex, editData>>
    /\ UNCHANGED <<deleteModal, deleteCalls>>
    /\ UNCHANGED <<queryError, isExecuting, execCalls, history>>
    /\ UNCHANGED <<searchTerm, sortConfig>>
    /\ UNCHANGED <<resolverVars, metadataVars, targetVars, quickVars>>

initiateDelete(index) ==
    /\ RowRendered(index)
    /\ CanEdit
    /\ editingRowIndex # index
    /\ deleteModal' = [show |-> TRUE, row |-> processedRows[index + 1], index |-> index]
    /\ UNCHANGED <<editingRowIndex, editData, isSaving>>
    /\ UNCHANGED <<searchTerm, sortConfig>>
    /\ UNCHANGED <<resolverVars, metadataVars, targetVars, execVars, quickVars, mutationVars>>

closeDeleteModal ==
    /\ deleteModal.show
    /\ deleteModal' = HiddenModal
    /\ UNCHANGED <<editingRowIndex, editData, isSaving>>
    /\ UNCHANGED <<searchTerm, sortConfig>>
    /\ UNCHANGED <<resolverVars, metadataVars, targetVars, execVars, quickVars, mutationVars>>

\* result.rows.findIndex of confirmDeleteRow, 0-based, -1 when no row matches
RealIndex(row) ==
    LET pks == PrimaryKeysProp
        matches(r) ==
            IF Len(pks) > 0
            THEN \A i \in 1..Len(pks) : Get(r.cells, pks[i]) = Get(row.cells, pks[i])
            ELSE r.ref = row.ref
        hits == {i \in 1..Len(queryResult.rows) : matches(queryResult.rows[i])}
    IN  IF hits = {} THEN -1
        ELSE (CHOOSE i \in hits : \A j \in hits : i <= j) - 1

\* confirmDeleteRow calling handleDeleteRow up to its await of deleteTableRow;
\* result.rows of a result without rows raises a TypeError and nothing is sent
confirmDeleteRow ==
    /\ deleteModal.show
    /\ deleteModal' = HiddenModal
    /\ IF ~queryResult.hasRows
          \/ RealIndex(deleteModal.row) = -1
          \/ MissingTableContext
       THEN UNCHANGED deleteCalls
       ELSE LET request == DeleteRequest(PkData(deleteModal.row.cells))
            IN  /\ InFlight < MaxInFlight
                /\ deleteCalls' = deleteCalls \cup
                      {[rowIndex |-> RealIndex(deleteModal.row),
                        snapshot |-> queryResult, request |-> request]}
    /\ UNCHANGED <<editingRowIndex, editData, isSaving, updateCalls>>
    /\ UNCHANGED <<searchTerm, sortConfig>>
    /\ UNCHANGED <<resolverVars, metadataVars, targetVars, execVars, quickVars>>

\* deleteTableRow answers: handleDeleteRow runs to its end
DeleteReturn(call, outcome) ==
    /\ call \in deleteCalls
    /\ deleteCalls' = deleteCalls \ {call}
    /\ IF outcome = "truthy"
       THEN LET rows == call.snapshot.rows
                kept == [i \in 1..(Len(rows) - 1) |->
                            IF i <= call.rowIndex THEN rows[i] ELSE rows[i + 1]]
            IN  queryResult' =
                    [call.snapshot EXCEPT
                        !.rows = kept,
                        !.hasRowsAffected = TRUE,
                        !.rows_affected =
                            (IF call.snapshot.hasRowsAffected
                             THEN call.snapshot.rows_affected ELSE 0) + 1]
       ELSE UNCHANGED queryResult
    /\ UNCHANGED <<updateCalls, gridVars>>
    /\ UNCHANGED <<queryError, isExecuting, execCalls, history>>
    /\ UNCHANGED <<resolverVars, metadataVars, targetVars, quickVars>>

(***************************************************************************)
(* QueryEditor and App.handleExecuteQuery                                  *)
(***************************************************************************)
\* the operator types a statement into the editor
setQuery(text) ==
    /\ query' = text
    /\ UNCHANGED <<queryContext, quickActions, lastQuickAction>>
    /\ UNCHANGED <<resolverVars, metadataVars, targetVars, execVars, gridVars, mutationVars>>

databaseTypeNames(sel) ==
    IF sel = Symbolic("mysql") THEN "MySQL"
    ELSE IF sel = Symbolic("postgres") THEN "PostgreSQL"
    ELSE IF sel = Symbolic("sqlserver") THEN "SQL Server"
    ELSE IF sel = Symbolic("custom") THEN "Custom"
    ELSE Undefined

\* QueryEditor.handleExecute calling handleExecuteQuery up to its await of
\* executeQuery.  The Execute button is disabled while isExecuting; the
\* Ctrl+Enter shortcut is not.
handleExecute(viaShortcut) ==
    /\ query # ""
    /\ viaShortcut \/ ~isExecuting
    /\ isExecuting' = TRUE
    /\ queryError' = NoError
    /\ queryResult' = NullResult
    /\ execCalls' = execCalls \cup
          {[id |-> SmallestUnused({c.id : c \in execCalls}),
            stage |-> "executeQuery",
            query |-> query,
            database_type |-> AppDbType(selectedDatabase),
            connection_string |->
                AppConnectionString(selectedDatabase, customConnection, currentDbName),
            result |-> "", status |-> "", recorded |-> 0]}
    /\ UNCHANGED history
    /\ UNCHANGED <<resolverVars, metadataVars, targetVars, quickVars, gridVars, mutationVars>>

\* executeQuery answers with a QueryResult: up to the await of addHistory
ExecuteReturn(call, response) ==
    /\ call \in execCalls
    /\ call.stage = "executeQuery"
    /\ queryResult' = [response EXCEPT !.rows = WithFreshRefs(response.rows, LiveRefs)]
    /\ execCalls' = (execCalls \ {call})
          \cup {[call EXCEPT !.stage = "addHistory",
                              !.result = IF response.success THEN "success" ELSE "failed",
                              !.status = "success",
                              !.recorded = @ + 1]}
    /\ UNCHANGED <<queryError, isExecuting, history>>
    /\ UNCHANGED <<resolverVars, metadataVars, targetVars, quickVars, gridVars, mutationVars>>

\* executeQuery rejects: the catch branch up to its await of addHistory
ExecuteThrows(call) ==
    /\ call \in execCalls
    /\ call.stage = "executeQuery"
    /\ queryError' = "Network Error"
    /\ execCalls' = (execCalls \ {call})
          \cup {[call EXCEPT !.stage = "addHistory", !.result = "threw",
                              !.status = "error", !.recorded = @ + 1]}
    /\ UNCHANGED <<queryResult, isExecuting, history>>
    /\ UNCHANGED <<resolverVars, metadataVars, targetVars, quickVars, gridVars, mutationVars>>

\* as if the success branch awaited addHistory without its own try/catch
HistoryReturn_Rerecorded(call, stored) ==
    /\ call \in execCalls
    /\ call.stage = "addHistory"
    /\ IF ~stored /\ call.status = "success"
       THEN /\ execCalls' = (execCalls \ {call})
                  \cup {[call EXCEPT !.status = "error", !.recorded = @ + 1]}
            /\ queryError' = "history unavailable"
            /\ UNCHANGED <<history, isExecuting>>
       ELSE /\ execCalls' = execCalls \ {call}
            /\ history' =
                  IF stored
                  THEN Append(history, [query_text |-> call.query, status |-> call.status])
                  ELSE history
            /\ isExecuting' = FALSE
            /\ UNCHANGED queryError
    /\ UNCHANGED queryResult
    /\ UNCHANGED <<resolverVars, metadataVars, targetVars, quickVars, gridVars, mutationVars>>

\* as if a rejected addHistory were reported like a failed execution
HistoryReturn_Surfaced(call, stored) ==
    /\ call \in execCalls
    /\ call.stage = "addHistory"
    /\ execCalls' = execCalls \ {call}
    /\ history' = IF stored
                  THEN Append(history, [query_text |-> call.query, status |-> call.status])
                  ELSE history
    /\ queryError' = IF stored THEN queryError ELSE "history unavailable"
    /\ isExecuting' = FALSE
    /\ UNCHANGED queryResult
    /\ UNCHANGED <<resolverVars, metadataVars, targetVars, quickVars, gridVars, mutationVars>>

\* as if a rejected addHistory skipped the finally block
HistoryReturn_Unfinished(call, stored) ==
    /\ call \in execCalls
    /\ call.stage = "addHistory"
    /\ execCalls' = execCalls \ {call}
    /\ history' = IF stored
                  THEN Append(history, [query_text |-> call.query, status |-> call.status])
                  ELSE history
    /\ isExecuting' = IF stored THEN FALSE ELSE isExecuting
    /\ UNCHANGED <<queryResult, queryError>>
    /\ UNCHANGED <<resolverVars, metadataVars, targetVars, quickVars, gridVars, mutationVars>>

\* addHistory answers or rejects: handleExecuteQuery runs to its end
HistoryReturn(call, stored) ==
    /\ call \in execCalls
    /\ call.stage = "addHistory"
    /\ execCalls' = execCalls \ {call}
    /\ history' = IF stored
                  THEN Append(history, [query_text |-> call.query, status |-> call.status])
                  ELSE history
    /\ isExecuting' = FALSE
    /\ UNCHANGED <<queryResult, queryError>>
    /\ UNCHANGED <<resolverVars, metadataVars, targetVars, quickVars, gridVars, mutationVars>>

InitApp ==
    /\ selectedDatabase = Symbolic("mysql")
    /\ customConnection = <<>>
    /\ currentDbName = Null
    /\ currentDatabase = Null
    /\ queryResult = NullResult
    /\ queryError = NoError
    /\ isExecuting = FALSE
    /\ queryContext = NullContext
    /\ query = ""
    /\ editingRowIndex = NoIndex
    /\ editData = EmptyObject
    /\ isSaving = FALSE
    /\ deleteModal = HiddenModal
    /\ searchTerm = ""
    /\ sortConfig = NoSort
    /\ quickActions = {}
    /\ execCalls = {}
    /\ updateCalls = {}
    /\ deleteCalls = {}
    /\ history = <<>>

\* no execution has been submitted
NoDisplay == [submitted |-> 0, result |-> 0, error |-> 0, statement |-> ""]

NoMutation == [kind |-> "none", outcome |-> "", rows_affected |-> 0, level |-> ""]

NoExecution ==
    [id |-> 0, stage |-> "none", query |-> "", database_type |-> "", connection_string |-> Null,
     result |-> "", status |-> "", recorded |-> 0, stored |-> FALSE]

NoQuickAction ==
    [action |-> "", objectType |-> "", objectName |-> "", sql |-> "", ended |-> "no",
     changed |-> FALSE]

InitNoResolverCall ==
    /\ connectionString = Null
    /\ dbName = Null
    /\ dbType = NotCalled
    /\ resolved = NoOutcome

\* no catalog query has been answered, no metadata service has been called
NoRawResult == [rejected |-> FALSE, success |-> FALSE, rows |-> <<>>, message |-> ""]
NoServiceCall ==
    [origin |-> "none", outcome |-> NoOutcome, executeQuery |-> 0, addHistory |-> 0]
InitNoServiceCall ==
    /\ rawResult = NoRawResult
    /\ databaseList = NoOutcome
    /\ lastServiceCall = NoServiceCall

\* DatabaseExplorer after its first render
Categories == {"tables", "views", "procedures", "functions", "triggers"}
NoObjects == [c \in Categories |-> <<>>]
NoToast == [kind |-> "none", text |-> ""]
NotFetched == [c \in Categories |-> [ok |-> FALSE, names |-> <<>>, message |-> ""]]
NoFailure == [operation |-> "none", message |-> "", shown |-> NoToast]
InitExplorer ==
    /\ expandedTables = {}
    /\ tableDetails = [t \in {} |-> <<>>]
    /\ detailLoads = {}
    /\ lastFailure = NoFailure
    /\ testStatus = ""
    /\ testMessage = ""
    /\ objects = NoObjects
    /\ loading = FALSE
    /\ toast = NoToast
    /\ databases = <<>>
    /\ listLoads = {}
    /\ objectLoads = {}
    /\ dbDeletes = {}
    /\ fetched = NotFetched

(***************************************************************************)
(* Inputs of the resolver: raw connection strings of the documented form   *)
(* scheme[+driver]://user:password@host[:port]/database[?options], strings *)
(* the URL parser rejects, a scheme no dialect matches, null and "".       *)
(***************************************************************************)
SchemeMysqlDriver == <<"m", "y", "s", "q", "l", "+", "p", "y", "m", "y", "s", "q", "l">>
SchemePostgresDriver == <<"p", "o", "s", "t", "g", "r", "e", "s", "q", "l", "+", "p", "s", "y", "c", "o", "p", "g", "2">>
SchemeMssqlDriver == <<"m", "s", "s", "q", "l", "+", "p", "y", "o", "d", "b", "c">>
SchemeSeparator == <<":", "/", "/">>
UserInfo == <<"u", ":", "p", "@">>
HostName == <<"h">>
DriverQuery == <<"?", "d", "r", "i", "v", "e", "r", "=", "X">>
SlashQuery == <<"?", "s", "=", "/", "c">>
SqliteConn == <<"s", "q", "l", "i", "t", "e", ":", "/", "/", "/", "/", "a", "p", "p", "/", "d", "a", "t", "a", "/", "x", ".", "d", "b">>

Schemes == {SchemeMysqlDriver, SchemePostgresDriver, SchemeMssqlDriver, StrMysql, StrPostgres}
Ports == {<<>>, <<":", "1">>}
BadPorts == {<<":", "x">>}
Databases == {<<"d", "b">>}
Queries == {<<>>, DriverQuery, SlashQuery}

ConnString(scheme, port, db, options) ==
    scheme \o SchemeSeparator \o UserInfo \o HostName \o port \o <<"/">> \o db \o options

\* one connection string of each dialect, as stored connections hold them
ExampleMysql == ConnString(SchemeMysqlDriver, <<>>, <<"d", "b">>, <<>>)
ExamplePostgres == ConnString(SchemePostgresDriver, <<>>, <<"d", "b">>, <<>>)
ExampleMssql == ConnString(SchemeMssqlDriver, <<>>, <<"d", "b">>, DriverQuery)

WellFormedConnStrings ==
    {ConnString(s, p, d, q) : s \in Schemes, p \in Ports, d \in Databases, q \in Queries}

MalformedConnStrings ==
    {ConnString(s, p, d, q) : s \in Schemes, p \in BadPorts, d \in Databases, q \in Queries}
    \cup {HostName \o <<"/">> \o d : d \in Databases}
    \cup {s \o SchemeSeparator \o UserInfo \o <<"/">> \o d :
            s \in {SchemeMysqlDriver, SchemeMssqlDriver}, d \in Databases}

ConnStrings == WellFormedConnStrings \cup MalformedConnStrings \cup {SqliteConn, Null, <<>>}
DbNames == {Null, <<>>, <<"n">>, <<"n", "2">>}

InitResolver ==
    /\ connectionString \in ConnStrings
    /\ dbName \in DbNames
    /\ dbType = NotCalled
    /\ resolved = NoOutcome
    /\ InitApp
    /\ lastQuickAction = NoQuickAction
    /\ lastExecuted = NoExecution
    /\ lastMutation = NoMutation
    /\ displayed = NoDisplay
    /\ InitNoServiceCall
    /\ InitExplorer

\* a caller classifies its raw connection string (getDatabases, getTables, ...)
Classify ==
    /\ dbType' = getDbTypeFromStr(connectionString)
    /\ UNCHANGED <<connectionString, dbName, resolved, appVars, lastQuickAction, lastExecuted, lastMutation, displayed, metadataVars>>

\* a caller retargets its raw connection string to the selected database
Retarget ==
    /\ resolved' = getConnectionStringForDb(connectionString, dbName)
    /\ UNCHANGED <<connectionString, dbName, dbType, appVars, lastQuickAction, lastExecuted, lastMutation, displayed, metadataVars>>

NextResolver == Classify \/ Retarget

SpecResolver == InitResolver /\ [][NextResolver]_vars

(***************************************************************************)
(* The results grid: quick actions of the explorer, executions and edits   *)
(* against the pre-provisioned mysql server.                               *)
(***************************************************************************)
ExplorerButtons == {<<"select100", "tables", t>> : t \in Tables}
TypedQueries == {"SELECT status FROM orders"}
EditValues == {"shipped"}
Outcomes == {"truthy", "falsy", "throws"}

\* the grid specification observes no quick action and no execution
Unobserved ==
    /\ lastQuickAction' = lastQuickAction
    /\ lastExecuted' = lastExecuted
    /\ lastMutation' = lastMutation
    /\ displayed' = displayed

\* the grid specification has one request in flight and MaxHistory executions
WithinGridBounds ==
    InFlight < MaxInFlight /\ Len(history) + Cardinality(execCalls) < MaxHistory

InitGrid ==
    /\ InitNoResolverCall /\ InitApp
    /\ lastQuickAction = NoQuickAction /\ lastExecuted = NoExecution
    /\ lastMutation = NoMutation
    /\ displayed = NoDisplay
    /\ InitNoServiceCall /\ InitExplorer

NextGrid ==
    \/ \E b \in ExplorerButtons : HandleQuickAction(b[1], b[2], b[3]) /\ Unobserved
    \/ \E call \in quickActions, ok \in BOOLEAN :
          QuickActionPrimaryKeys(call, ok) /\ Unobserved
    \/ \E text \in TypedQueries : setQuery(text) /\ Unobserved
    \/ \E viaShortcut \in BOOLEAN :
          WithinGridBounds /\ handleExecute(viaShortcut) /\ Unobserved
    \/ \E call \in execCalls :
          \E response \in ExecutorResponses(call.query) :
             ExecuteReturn(call, response) /\ Unobserved
    \/ \E call \in execCalls : ExecuteThrows(call) /\ Unobserved
    \/ \E call \in execCalls, stored \in BOOLEAN : HistoryReturn(call, stored) /\ Unobserved
    \/ \E index \in 0..(MaxRows - 1) : startEdit(index) /\ Unobserved
    \/ \E value \in EditValues : handleEditChange("status", value) /\ Unobserved
    \/ cancelEdit /\ Unobserved
    \/ \E index \in 0..(MaxRows - 1) : saveEdit(index) /\ Unobserved
    \/ \E call \in updateCalls, outcome \in Outcomes :
          UpdateReturn(call, outcome) /\ Unobserved
    \/ \E index \in 0..(MaxRows - 1) : initiateDelete(index) /\ Unobserved
    \/ closeDeleteModal /\ Unobserved
    \/ confirmDeleteRow /\ Unobserved
    \/ \E call \in deleteCalls, outcome \in Outcomes :
          DeleteReturn(call, outcome) /\ Unobserved

SpecGrid == InitGrid /\ [][NextGrid]_vars

(***************************************************************************)
(* Quick actions for every target: the three pre-provisioned servers and a *)
(* stored connection of each dialect, every action on every object type.   *)
(***************************************************************************)
Actions == {"select100", "count", "describe", "selectAll", "showCreate", "execute", "drop"}
ObjectTypes == {"tables", "views", "procedures", "functions", "triggers"}
Targets ==
    {<<Symbolic(d), <<>>>> : d \in Dialects}
        \cup {<<Stored(1), c>> : c \in {ExampleMysql, ExamplePostgres, ExampleMssql}}

InitQuick ==
    /\ InitNoResolverCall
    /\ \E target \in Targets :
          selectedDatabase = target[1] /\ customConnection = target[2]
    /\ currentDbName = Null
    /\ currentDatabase = Null
    /\ queryResult = NullResult
    /\ queryError = NoError
    /\ isExecuting = FALSE
    /\ queryContext = NullContext
    /\ query = ""
    /\ editingRowIndex = NoIndex
    /\ editData = EmptyObject
    /\ isSaving = FALSE
    /\ deleteModal = HiddenModal
    /\ searchTerm = ""
    /\ sortConfig = NoSort
    /\ quickActions = {}
    /\ execCalls = {}
    /\ updateCalls = {}
    /\ deleteCalls = {}
    /\ history = <<>>
    /\ lastQuickAction = NoQuickAction
    /\ lastExecuted = NoExecution
    /\ lastMutation = NoMutation
    /\ displayed = NoDisplay
    /\ InitNoServiceCall
    /\ InitExplorer

\* what a handleQuickAction call that ran to its end did
Observed(action, objectType, objectName, sql) ==
    [action |-> action, objectType |-> objectType, objectName |-> objectName,
     sql |-> sql, ended |-> "returned",
     changed |-> (<<query', queryContext'>> # <<query, queryContext>>)]

QuickActionEnds ==
    \E action \in Actions, objectType \in ObjectTypes, objectName \in Tables :
        /\ ~NeedsPrimaryKeys(action, objectType)
        /\ HandleQuickAction(action, objectType, objectName)
        /\ lastQuickAction' =
              Observed(action, objectType, objectName,
                       generateSQL(selectedDatabase, action, objectType, objectName))
        /\ UNCHANGED <<lastExecuted, lastMutation, displayed>>

QuickActionAwaits ==
    \E action \in Actions, objectType \in ObjectTypes, objectName \in Tables :
        /\ NeedsPrimaryKeys(action, objectType)
        /\ HandleQuickAction(action, objectType, objectName)
        /\ UNCHANGED <<lastQuickAction, lastExecuted, lastMutation, displayed>>

QuickActionResumes ==
    \E call \in quickActions, ok \in BOOLEAN :
        /\ QuickActionPrimaryKeys(call, ok)
        /\ lastQuickAction' =
              Observed(call.action, call.objectType, call.objectName, call.sql)
        /\ UNCHANGED <<lastExecuted, lastMutation, displayed>>

NextQuick == QuickActionEnds \/ QuickActionAwaits \/ QuickActionResumes

SpecQuick == InitQuick /\ [][NextQuick]_vars

(***************************************************************************)
(* getDatabases for a raw connection string.  A raw row is the sequence of *)
(* its column values; Object.values(row)[0] is the first of them.          *)
(***************************************************************************)
MaxNames == 2           \* rows a catalog query returns

Thrown(message) == [called |-> TRUE, threw |-> TRUE, value |-> <<message>>]

FirstValue(row) == IF Len(row) = 0 THEN Undefined ELSE row[1]

\* the filter of getDatabases drops the name
IsFilteredOut_PostgresKept(type, db) ==
    type = "mysql" /\ db \in {"information_schema", "mysql", "performance_schema", "sys"}

IsFilteredOut(type, db) ==
    IF type = "mysql"
    THEN db \in {"information_schema", "mysql", "performance_schema", "sys"}
    ELSE IF type = "postgres" THEN db \in {"postgres"}
    ELSE FALSE

\* Array.prototype.filter
RECURSIVE FilterDatabases(_, _)
FilterDatabases(type, names) ==
    IF names = <<>> THEN <<>>
    ELSE (IF IsFilteredOut(type, Head(names)) THEN <<>> ELSE <<Head(names)>>)
            \o FilterDatabases(type, Tail(names))

\* getDatabases(databaseType, connectionString) with a connection string,
\* given the executor's answer to the catalog query
getDatabases(connStr, result) ==
    LET type == getDbTypeFromStr(connStr)
    IN  IF result.rejected \/ ~result.success THEN Thrown(result.message)
        ELSE Returned(FilterDatabases(type,
                [i \in 1..Len(result.rows) |-> FirstValue(result.rows[i])]))

DatabaseNames ==
    {"information_schema", "mysql", "performance_schema", "sys", "postgres", "master", "shop"}
RECURSIVE RowLists(_)
RowLists(n) ==
    IF n = 0 THEN {<<>>}
    ELSE RowLists(n - 1)
            \cup {Append(l, <<d>>) : l \in {r \in RowLists(n - 1) : Len(r) = n - 1},
                                     d \in DatabaseNames}
\* executeQuery resolves with a QueryResult or rejects with an Error
Resolved(success, rows, message) ==
    [rejected |-> FALSE, success |-> success, rows |-> rows, message |-> message]
Rejected(message) ==
    [rejected |-> TRUE, success |-> FALSE, rows |-> <<>>, message |-> message]
RawResults ==
    {Resolved(TRUE, l, "") : l \in RowLists(MaxNames)}
        \cup {Resolved(FALSE, <<>>, "access denied"), Rejected("Network Error")}

InitDatabases ==
    /\ connectionString \in WellFormedConnStrings
    /\ dbName = Null
    /\ dbType = NotCalled
    /\ resolved = NoOutcome
    /\ InitApp
    /\ lastQuickAction = NoQuickAction
    /\ lastExecuted = NoExecution
    /\ lastMutation = NoMutation
    /\ displayed = NoDisplay
    /\ rawResult \in RawResults
    /\ databaseList = NoOutcome
    /\ lastServiceCall = NoServiceCall
    /\ InitExplorer

\* the requests a service call sent: getDatabases sends one executeQuery
\* and no addHistory
ServiceCall(origin, outcome, executed, recorded) ==
    [origin |-> origin, outcome |-> outcome,
     executeQuery |-> executed, addHistory |-> recorded]

GetDatabases ==
    /\ databaseList' = getDatabases(connectionString, rawResult)
    /\ lastServiceCall' =
          ServiceCall("getDatabases", getDatabases(connectionString, rawResult), 1, 0)
    /\ UNCHANGED <<resolverVars, appVars, lastQuickAction, lastExecuted, lastMutation, displayed>>
    /\ UNCHANGED <<rawResult, explorerVars, headerVars>>

NextDatabases == GetDatabases

SpecDatabases == InitDatabases /\ [][NextDatabases]_vars

(***************************************************************************)
(* DatabaseExplorer: choosing a connection, selecting and deleting a       *)
(* database, loading the database list, the objects and the details of a   *)
(* table.  Every call that awaits the backend is a record in flight.       *)
(***************************************************************************)
Fetched(names) == [ok |-> TRUE, names |-> names, message |-> ""]
FetchFailed(message) == [ok |-> FALSE, names |-> <<>>, message |-> message]

\* what getTables, getViews, getProcedures, getFunctions, getTriggers answer
NamesOf(category) ==
    IF category = "tables" THEN {<<>>, <<"orders">>}
    ELSE IF category = "views" THEN {<<>>, <<"open_orders">>}
    ELSE {<<>>}
FetchOutcomes(category) ==
    {Fetched(names) : names \in NamesOf(category)} \cup {FetchFailed("access denied")}
JoinedOutcomes ==
    [tables : FetchOutcomes("tables"), views : FetchOutcomes("views"),
     procedures : FetchOutcomes("procedures"), functions : FetchOutcomes("functions"),
     triggers : FetchOutcomes("triggers")]

ErrorToast(text) == [kind |-> "error", text |-> text]
SuccessToast(text) == [kind |-> "success", text |-> text]

\* a fetch failed with the message; the toast is what the handler showed
Failure(operation, message, shown) ==
    [operation |-> operation, message |-> message, shown |-> shown]

\* the servers: the databases each one lists, system catalogs left out, and
\* the tables of each database
DatabaseNamed == <<"d", "b">>
OtherDatabase == <<"n">>
DatabasesOf(sel) ==
    IF sel = Symbolic("mysql") THEN <<DatabaseNamed, OtherDatabase>> ELSE <<DatabaseNamed>>
TablesIn(sel, database) ==
    IF sel # Symbolic("mysql") THEN <<"logs">>
    ELSE IF database = DatabaseNamed THEN <<"orders">>
    ELSE <<"orders", "logs">>
CatalogOf(sel, database) ==
    [c \in Categories |-> Fetched(IF c = "tables" THEN TablesIn(sel, database) ELSE <<>>)]

\* loadDatabaseList up to its await of getDatabases, or to its early return
loadDatabaseList(sel, conn) ==
    IF sel = Symbolic("custom")
    THEN databases' = <<>> /\ UNCHANGED listLoads
    ELSE IF sel.kind = "string" /\ Len(sel.name) >= 6 /\ SubSeq(sel.name, 1, 6) = "sqlite"
    THEN databases' = <<<<"m", "a", "i", "n">>>> /\ UNCHANGED listLoads
    ELSE IF IsCustomTarget(sel) /\ IsFalsy(conn)
    THEN databases' = <<>> /\ UNCHANGED listLoads
    ELSE /\ listLoads' = listLoads \cup
                {[selectedDatabase |-> sel,
                  connection_string |-> IF IsCustomTarget(sel) THEN conn ELSE Null]}
         /\ UNCHANGED databases

\* getDatabases answers or rejects: loadDatabaseList runs to its end
LoadDatabaseListReturn(call, ok) ==
    /\ call \in listLoads
    /\ listLoads' = listLoads \ {call}
    /\ IF ok
       THEN /\ databases' = DatabasesOf(call.selectedDatabase)
            /\ UNCHANGED <<toast, lastFailure>>
       ELSE /\ databases' = <<>>
            /\ toast' = ErrorToast("Failed to load databases: " \o "access denied" \o " ")
            /\ lastFailure' = Failure("loadDatabaseList", "access denied", toast')
    /\ UNCHANGED <<objects, loading, objectLoads, fetched, detailVars, dbDeletes>>
    /\ UNCHANGED <<resolverVars, serviceVars, headerVars, appVars, lastQuickAction, lastExecuted, lastMutation, displayed>>

\* loadDatabaseObjects up to its await of the five fetches
loadDatabaseObjects(current) ==
    IF selectedDatabase = Symbolic("custom") \/ IsFalsy(current)
    THEN /\ objects' = NoObjects
         /\ UNCHANGED <<loading, objectLoads>>
    ELSE /\ loading' = TRUE
         /\ objectLoads' = objectLoads \cup
                {[selectedDatabase |-> selectedDatabase,
                  database |-> current,
                  connection_string |->
                      ExplorerConnectionString(selectedDatabase, customConnection, current)]}
         /\ UNCHANGED objects

\* selectDatabase: with a connection string no request is sent
selectDatabase(connStr, answer) ==
    IF ~IsFalsy(connStr)
    THEN [request |-> FALSE, resolved |-> TRUE]
    ELSE [request |-> TRUE, resolved |-> answer]

\* handleSelectDatabase setting the database before selectDatabase answered
handleSelectDatabase_Optimistic(name, answer) ==
    /\ currentDatabase' = name
    /\ currentDbName' = name
    /\ toast' = SuccessToast("Switched to database 'db'")
    /\ IF currentDatabase # name
       THEN loadDatabaseObjects(name)
       ELSE UNCHANGED <<objects, loading, objectLoads>>
    /\ UNCHANGED <<selectedDatabase, customConnection, fetched, detailVars, lastFailure>>
    /\ UNCHANGED <<databases, listLoads, dbDeletes>>
    /\ UNCHANGED <<resolverVars, serviceVars, headerVars, execVars, quickVars, gridVars>>
    /\ UNCHANGED <<mutationVars, lastQuickAction, lastExecuted, lastMutation, displayed>>

\* handleSelectDatabase; a change of currentDatabase runs the effect that
\* calls loadDatabaseObjects
handleSelectDatabase(name, answer) ==
    /\ IF selectDatabase(IF IsCustomTarget(selectedDatabase) THEN customConnection ELSE Null,
                         answer).resolved
       THEN /\ currentDatabase' = name
            /\ currentDbName' = name
            /\ toast' = SuccessToast("Switched to database 'db'")
            /\ IF currentDatabase # name
               THEN loadDatabaseObjects(name)
               ELSE UNCHANGED <<objects, loading, objectLoads>>
       ELSE /\ toast' = ErrorToast("Failed to select database: " \o "unknown database" \o " ")
            /\ UNCHANGED <<currentDatabase, currentDbName, objects, loading, objectLoads>>
    /\ UNCHANGED <<selectedDatabase, customConnection, fetched, detailVars, lastFailure>>
    /\ UNCHANGED <<databases, listLoads, dbDeletes>>
    /\ UNCHANGED <<resolverVars, serviceVars, headerVars, execVars, quickVars, gridVars>>
    /\ UNCHANGED <<mutationVars, lastQuickAction, lastExecuted, lastMutation, displayed>>

\* Header choosing a connection: App.handleDatabaseTypeChange, and the
\* explorer's effect on selectedDatabase and customConnection when one changed
handleDatabaseTypeChange(sel, connStr) ==
    /\ selectedDatabase' = sel
    /\ currentDbName' = Null
    /\ customConnection' = IF IsFalsy(connStr) THEN <<>> ELSE connStr
    /\ IF <<selectedDatabase', customConnection'>> # <<selectedDatabase, customConnection>>
       THEN /\ currentDatabase' = Null
            /\ objects' = NoObjects
            /\ loadDatabaseList(selectedDatabase', customConnection')
       ELSE UNCHANGED <<currentDatabase, objects, databases, listLoads>>
    /\ UNCHANGED <<loading, toast, objectLoads, fetched, detailVars, lastFailure, dbDeletes>>
    /\ UNCHANGED <<resolverVars, serviceVars, headerVars, execVars, quickVars, gridVars>>
    /\ UNCHANGED <<mutationVars, lastQuickAction, lastExecuted, lastMutation, displayed>>

\* confirmDelete up to its await of deleteDatabase
confirmDelete(name) ==
    /\ name \in Range(databases)
    /\ dbDeletes' = dbDeletes \cup
          {[dbName |-> name, currentDatabase |-> currentDatabase,
            selectedDatabase |-> selectedDatabase, customConnection |-> customConnection]}
    /\ UNCHANGED <<objects, loading, toast, objectLoads, fetched, detailVars, lastFailure>>
    /\ UNCHANGED <<databases, listLoads>>
    /\ UNCHANGED <<resolverVars, serviceVars, headerVars, appVars, lastQuickAction, lastExecuted, lastMutation, displayed>>

\* deleteDatabase answers or rejects: confirmDelete runs to its end with the
\* currentDatabase and the connection of the render that started it
DeleteDatabaseReturn(call, ok) ==
    /\ call \in dbDeletes
    /\ dbDeletes' = dbDeletes \ {call}
    /\ IF ok
       THEN /\ toast' = SuccessToast("Database 'db' deleted successfully")
            /\ IF call.currentDatabase = call.dbName
               THEN currentDatabase' = Null /\ currentDbName' = Null
               ELSE UNCHANGED <<currentDatabase, currentDbName>>
            /\ loadDatabaseList(call.selectedDatabase, call.customConnection)
       ELSE /\ toast' = ErrorToast("Failed to delete database: " \o "access denied" \o " ")
            /\ UNCHANGED <<currentDatabase, currentDbName, databases, listLoads>>
    /\ UNCHANGED <<selectedDatabase, customConnection>>
    /\ UNCHANGED <<objects, loading, objectLoads, fetched, detailVars, lastFailure>>
    /\ UNCHANGED <<resolverVars, serviceVars, headerVars, execVars, quickVars, gridVars>>
    /\ UNCHANGED <<mutationVars, lastQuickAction, lastExecuted, lastMutation, displayed>>

\* handleRefresh
handleRefresh ==
    /\ loadDatabaseList(selectedDatabase, customConnection)
    /\ IF ~IsFalsy(currentDatabase)
       THEN loadDatabaseObjects(currentDatabase)
       ELSE UNCHANGED <<objects, loading, objectLoads>>
    /\ UNCHANGED <<toast, fetched, detailVars, lastFailure, dbDeletes>>
    /\ UNCHANGED <<resolverVars, serviceVars, headerVars, appVars, lastQuickAction, lastExecuted, lastMutation, displayed>>

\* Promise.all settles: loadDatabaseObjects runs to its end.  It rejects with
\* the rejection of the fetch that failed first.
LoadDatabaseObjectsJoin(call, outcomes, first) ==
    /\ call \in objectLoads
    /\ objectLoads' = objectLoads \ {call}
    /\ loading' = FALSE
    /\ fetched' = outcomes
    /\ IF \A c \in Categories : outcomes[c].ok
       THEN /\ objects' = [c \in Categories |-> outcomes[c].names]
            /\ UNCHANGED <<toast, lastFailure>>
       ELSE /\ ~outcomes[first].ok
            /\ toast' = ErrorToast("Failed to load database objects: "
                                      \o outcomes[first].message \o " ")
            /\ lastFailure' = Failure("loadDatabaseObjects", outcomes[first].message, toast')
            /\ UNCHANGED objects
    /\ UNCHANGED <<detailVars, databases, listLoads, dbDeletes>>
    /\ UNCHANGED <<resolverVars, serviceVars, headerVars, appVars, lastQuickAction, lastExecuted, lastMutation, displayed>>

\* the columns of a table with their isPk marks, as getTableSchema and
\* getPrimaryKeys answer them
DetailsOf(table) ==
    IF table = "orders"
    THEN <<[name |-> "id", isPk |-> TRUE], [name |-> "status", isPk |-> FALSE]>>
    ELSE <<[name |-> "status", isPk |-> FALSE]>>
\* orders of the other database has one more column
DetailsIn(database, table) ==
    IF database = OtherDatabase /\ table = "orders"
    THEN DetailsOf(table) \o <<[name |-> "total", isPk |-> FALSE]>>
    ELSE DetailsOf(table)

\* toggleTableExpansion up to its await of the four detail fetches
toggleTableExpansion(tableName) ==
    /\ tableName \in Range(objects["tables"])
    /\ expandedTables' =
          IF tableName \in expandedTables
          THEN expandedTables \ {tableName}
          ELSE expandedTables \cup {tableName}
    /\ detailLoads' =
          IF tableName \notin DOMAIN tableDetails /\ tableName \notin expandedTables
          THEN detailLoads \cup
                  {[tableName |-> tableName, database |-> currentDatabase,
                    connection_string |->
                        ExplorerConnectionString(selectedDatabase, customConnection,
                                                 currentDatabase)]}
          ELSE detailLoads
    /\ UNCHANGED <<objects, loading, toast, objectLoads, fetched, tableDetails, lastFailure>>
    /\ UNCHANGED <<databases, listLoads, dbDeletes>>
    /\ UNCHANGED <<resolverVars, serviceVars, headerVars, appVars, lastQuickAction, lastExecuted, lastMutation, displayed>>

\* the four detail fetches settle: toggleTableExpansion runs to its end
TableDetailsJoin(call, ok, message) ==
    /\ call \in detailLoads
    /\ detailLoads' = detailLoads \ {call}
    /\ IF ok
       THEN /\ tableDetails' =
                  [t \in DOMAIN tableDetails \cup {call.tableName} |->
                      IF t = call.tableName THEN DetailsIn(call.database, t)
                      ELSE tableDetails[t]]
            /\ UNCHANGED <<toast, lastFailure>>
       ELSE /\ toast' = ErrorToast("Failed to load details for " \o call.tableName)
            /\ lastFailure' = Failure("toggleTableExpansion", message, toast')
            /\ UNCHANGED tableDetails
    /\ UNCHANGED <<objects, loading, objectLoads, fetched, expandedTables>>
    /\ UNCHANGED <<databases, listLoads, dbDeletes>>
    /\ UNCHANGED <<resolverVars, serviceVars, headerVars, appVars, lastQuickAction, lastExecuted, lastMutation, displayed>>

\* one database of the mysql server; a load is answered before the next one
\* starts, and the database list before anything else goes on
NoLoadInFlight == objectLoads = {} /\ listLoads = {}
ListSettled == listLoads = {}

InitObjects ==
    /\ InitNoResolverCall
    /\ InitApp
    /\ lastQuickAction = NoQuickAction
    /\ lastExecuted = NoExecution
    /\ lastMutation = NoMutation
    /\ displayed = NoDisplay
    /\ InitNoServiceCall
    /\ InitExplorer

NextObjects ==
    \/ \E ok \in BOOLEAN : NoLoadInFlight /\ handleSelectDatabase(DatabaseNamed, ok)
    \/ NoLoadInFlight /\ handleRefresh
    \/ \E call \in listLoads, ok \in BOOLEAN : LoadDatabaseListReturn(call, ok)
    \/ \E call \in objectLoads, outcomes \in JoinedOutcomes, first \in Categories :
          ListSettled /\ LoadDatabaseObjectsJoin(call, outcomes, first)
    \/ \E tableName \in Tables : ListSettled /\ toggleTableExpansion(tableName)
    \/ \E call \in detailLoads, ok \in BOOLEAN :
          ListSettled /\ TableDetailsJoin(call, ok, "access denied")

SpecObjects == InitObjects /\ [][NextObjects]_vars

(***************************************************************************)
(* Executions from the editor: the Execute button and Ctrl+Enter, the      *)
(* executor's answers and the history calls that follow them.              *)
(***************************************************************************)
MaxEntries == 2         \* executions started and not lost to a failed addHistory

WithinExecuteBounds == Len(history) + Cardinality(execCalls) < MaxEntries

\* what a handleExecuteQuery call that ran to its end did
Ended(call, stored) ==
    [id |-> call.id, stage |-> "done", query |-> call.query,
     database_type |-> call.database_type,
     connection_string |-> call.connection_string,
     result |-> call.result, status |-> call.status, recorded |-> call.recorded,
     stored |-> stored]

InitExecute ==
    /\ InitNoResolverCall /\ InitApp
    /\ lastQuickAction = NoQuickAction /\ lastExecuted = NoExecution
    /\ lastMutation = NoMutation
    /\ displayed = NoDisplay
    /\ InitNoServiceCall /\ InitExplorer

TypeStatement ==
    \E text \in TypedQueries :
        setQuery(text) /\ UNCHANGED <<lastQuickAction, lastExecuted, lastMutation, displayed>>

Execute ==
    \E viaShortcut \in BOOLEAN :
        /\ WithinExecuteBounds
        /\ handleExecute(viaShortcut)
        /\ UNCHANGED <<lastQuickAction, lastExecuted, lastMutation, displayed>>

ExecutorAnswers ==
    \E call \in execCalls :
        \E response \in ExecutorResponses(call.query) :
            ExecuteReturn(call, response) /\ UNCHANGED <<lastQuickAction, lastExecuted, lastMutation, displayed>>

ExecutorRejects ==
    \E call \in execCalls :
        ExecuteThrows(call) /\ UNCHANGED <<lastQuickAction, lastExecuted, lastMutation, displayed>>

HistoryAnswers ==
    \E call \in execCalls, stored \in BOOLEAN :
        /\ HistoryReturn(call, stored)
        /\ lastExecuted' =
              IF \E c \in execCalls' : c.id = call.id
              THEN lastExecuted ELSE Ended(call, stored)
        /\ UNCHANGED <<lastQuickAction, lastMutation, displayed>>

NextExecute ==
    TypeStatement \/ Execute \/ ExecutorAnswers \/ ExecutorRejects \/ HistoryAnswers

SpecExecute == InitExecute /\ [][NextExecute]_vars

\* every request of the execution with this id is eventually settled
Settles(id) ==
    \E call \in execCalls :
        /\ call.id = id
        /\ \/ \E response \in ExecutorResponses(call.query) :
                 ExecuteReturn(call, response)
                    /\ UNCHANGED <<lastQuickAction, lastExecuted, lastMutation, displayed>>
           \/ ExecuteThrows(call) /\ UNCHANGED <<lastQuickAction, lastExecuted, lastMutation, displayed>>
           \/ \E stored \in BOOLEAN :
                 /\ HistoryReturn(call, stored)
                 /\ lastExecuted' =
                       IF \E c \in execCalls' : c.id = call.id
                       THEN lastExecuted ELSE Ended(call, stored)
                 /\ UNCHANGED <<lastQuickAction, lastMutation, displayed>>

SpecExecuteFair == SpecExecute /\ \A id \in 1..MaxEntries : WF_vars(Settles(id))

(***************************************************************************)
(* Who records history: the executions of the editor next to the catalog   *)
(* queries of the metadata services and the connection test of the header. *)
(***************************************************************************)
\* the executeQuery and addHistory requests getTables sends
RequestsOfGetTables_Recorded(connStr) ==
    [executeQuery |-> IF IsFalsy(connStr) THEN 0 ELSE 1,
     addHistory |-> IF IsFalsy(connStr) THEN 0 ELSE 1]

RequestsOfGetTables(connStr) ==
    [executeQuery |-> IF IsFalsy(connStr) THEN 0 ELSE 1, addHistory |-> 0]

\* getTables(databaseType, connectionString), given what the executor (with a
\* connection string) or the tables endpoint (without) answers
getTables(connStr, result) ==
    IF result.rejected THEN Thrown(result.message)
    ELSE IF ~IsFalsy(connStr) /\ ~result.success THEN Thrown(result.message)
    ELSE Returned([i \in 1..Len(result.rows) |-> FirstValue(result.rows[i])])

GetTables ==
    /\ lastServiceCall' =
          ServiceCall("getTables", getTables(connectionString, rawResult),
                      RequestsOfGetTables(connectionString).executeQuery,
                      RequestsOfGetTables(connectionString).addHistory)
    /\ UNCHANGED <<resolverVars, appVars, lastQuickAction, lastExecuted, lastMutation, displayed>>
    /\ UNCHANGED <<rawResult, databaseList, explorerVars, headerVars>>

\* Header.handleTestConnection with the typed connection string
handleTestConnection ==
    /\ ~IsFalsy(connectionString)
    /\ IF rawResult.rejected
       THEN /\ testStatus' = "error"
            /\ testMessage' = "Connection failed: " \o rawResult.message
       ELSE /\ testStatus' = "success"
            /\ testMessage' = "Connection successful!"
    /\ lastServiceCall' = ServiceCall("handleTestConnection", NoOutcome, 1, 0)
    /\ UNCHANGED <<resolverVars, appVars, lastQuickAction, lastExecuted, lastMutation, displayed>>
    /\ UNCHANGED <<rawResult, databaseList, explorerVars>>

CatalogResults ==
    {Resolved(TRUE, <<<<"orders">>>>, ""), Resolved(FALSE, <<>>, "access denied"),
     Rejected("Network Error")}

InitCatalog ==
    /\ connectionString \in {Null, ExampleMysql, ExampleMssql}
    /\ dbName = Null
    /\ dbType = NotCalled
    /\ resolved = NoOutcome
    /\ InitApp
    /\ lastQuickAction = NoQuickAction /\ lastExecuted = NoExecution
    /\ lastMutation = NoMutation
    /\ displayed = NoDisplay
    /\ rawResult \in CatalogResults
    /\ databaseList = NoOutcome
    /\ lastServiceCall = NoServiceCall
    /\ InitExplorer

NextCatalog ==
    \/ GetTables
    \/ ~IsFalsy(connectionString) /\ GetDatabases
    \/ handleTestConnection
    \/ TypeStatement
    \/ Execute
    \/ ExecutorAnswers
    \/ ExecutorRejects
    \/ HistoryAnswers

SpecCatalog == InitCatalog /\ [][NextCatalog]_vars

(***************************************************************************)
(* Row mutations from a grid that shows the rows of orders with its table  *)
(* context, and what the operator is told when one ends.                   *)
(***************************************************************************)
MaxAffected == 1        \* rows a mutation reports as affected

\* the level of the toast handleUpdateRow / handleDeleteRow show
ToastLevel(outcome) == IF outcome = "truthy" THEN "success" ELSE "error"

Mutated(kind, outcome, affected) ==
    [kind |-> kind, outcome |-> outcome, rows_affected |-> affected,
     level |-> ToastLevel(outcome)]

InitMutation ==
    /\ InitNoResolverCall
    /\ selectedDatabase = Symbolic("mysql")
    /\ customConnection = <<>>
    /\ currentDbName = Null
    /\ currentDatabase = Null
    /\ queryResult =
          [RowsResponse(<<"id", "status">>) EXCEPT
              !.rows = WithFreshRefs(RowsResponse(<<"id", "status">>).rows, {})]
    /\ queryError = NoError
    /\ isExecuting = FALSE
    /\ queryContext = TableContext("orders", PrimaryKeysOf("orders"))
    /\ query = "SELECT * FROM orders LIMIT 100; "
    /\ editingRowIndex = NoIndex
    /\ editData = EmptyObject
    /\ isSaving = FALSE
    /\ deleteModal = HiddenModal
    /\ searchTerm = ""
    /\ sortConfig = NoSort
    /\ quickActions = {}
    /\ execCalls = {}
    /\ updateCalls = {}
    /\ deleteCalls = {}
    /\ history = <<>>
    /\ lastQuickAction = NoQuickAction /\ lastExecuted = NoExecution
    /\ lastMutation = NoMutation
    /\ displayed = NoDisplay
    /\ InitNoServiceCall /\ InitExplorer

Unmutated == UNCHANGED <<lastQuickAction, lastExecuted, lastMutation, displayed>>

NextMutation ==
    \/ \E index \in 0..(MaxRows - 1) : startEdit(index) /\ Unmutated
    \/ \E value \in EditValues : handleEditChange("status", value) /\ Unmutated
    \/ cancelEdit /\ Unmutated
    \/ \E index \in 0..(MaxRows - 1) : saveEdit(index) /\ Unmutated
    \/ \E call \in updateCalls, outcome \in Outcomes, affected \in 0..MaxAffected :
          /\ UpdateReturn(call, outcome)
          /\ lastMutation' = Mutated("update", outcome, affected)
          /\ UNCHANGED <<lastQuickAction, lastExecuted, displayed>>
    \/ \E index \in 0..(MaxRows - 1) : initiateDelete(index) /\ Unmutated
    \/ closeDeleteModal /\ Unmutated
    \/ confirmDeleteRow /\ Unmutated
    \/ \E call \in deleteCalls, outcome \in Outcomes, affected \in 0..MaxAffected :
          /\ DeleteReturn(call, outcome)
          /\ lastMutation' = Mutated("delete", outcome, affected)
          /\ UNCHANGED <<lastQuickAction, lastExecuted, displayed>>

SpecMutation == InitMutation /\ [][NextMutation]_vars

(***************************************************************************)
(* Submissions: quick actions, typed and restored statements, and          *)
(* executions that may overlap, with the execution each outcome on screen  *)
(* comes from.                                                             *)
(***************************************************************************)
OtherQueries == {"SELECT status FROM logs"}

\* handleHistorySelect: a statement of the history panel is put in the editor
handleHistorySelect(queryText) ==
    /\ queryText \in {history[i].query_text : i \in 1..Len(history)}
    /\ query' = queryText
    /\ UNCHANGED <<queryContext, quickActions>>
    /\ UNCHANGED <<resolverVars, metadataVars, targetVars, execVars, gridVars, mutationVars>>

Undisplayed == UNCHANGED <<lastQuickAction, lastExecuted, lastMutation, displayed>>

InitSubmit ==
    /\ InitNoResolverCall /\ InitApp
    /\ lastQuickAction = NoQuickAction /\ lastExecuted = NoExecution
    /\ lastMutation = NoMutation
    /\ displayed = NoDisplay
    /\ InitNoServiceCall /\ InitExplorer

Submit ==
    \E viaShortcut \in BOOLEAN :
        /\ WithinExecuteBounds
        /\ handleExecute(viaShortcut)
        /\ displayed' = [submitted |-> SmallestUnused({c.id : c \in execCalls}),
                         result |-> 0, error |-> 0, statement |-> ""]
        /\ UNCHANGED <<lastQuickAction, lastExecuted, lastMutation>>

NextSubmit ==
    \/ \E b \in ExplorerButtons : HandleQuickAction(b[1], b[2], b[3]) /\ Undisplayed
    \/ \E call \in quickActions, ok \in BOOLEAN :
          QuickActionPrimaryKeys(call, ok) /\ Undisplayed
    \/ \E text \in TypedQueries \cup OtherQueries : setQuery(text) /\ Undisplayed
    \/ \E text \in TypedQueries \cup OtherQueries : handleHistorySelect(text) /\ Undisplayed
    \/ Submit
    \/ \E call \in execCalls :
          \E response \in ExecutorResponses(call.query) :
             /\ ExecuteReturn(call, response)
             /\ displayed' = [displayed EXCEPT !.result = call.id, !.statement = call.query]
             /\ UNCHANGED <<lastQuickAction, lastExecuted, lastMutation>>
    \/ \E call \in execCalls :
          /\ ExecuteThrows(call)
          /\ displayed' = [displayed EXCEPT !.error = call.id]
          /\ UNCHANGED <<lastQuickAction, lastExecuted, lastMutation>>
    \/ \E call \in execCalls, stored \in BOOLEAN : HistoryReturn(call, stored) /\ Undisplayed

SpecSubmit == InitSubmit /\ [][NextSubmit]_vars

(***************************************************************************)
(* The grid with a search term and a sort order: rows of orders are shown  *)
(* with their table context, the operator searches, sorts and edits.       *)
(***************************************************************************)
MaxShown == 2           \* rows of the result on screen
SearchTerms == {"", "2"}

InitView ==
    /\ InitNoResolverCall
    /\ selectedDatabase = Symbolic("mysql")
    /\ customConnection = <<>>
    /\ currentDbName = Null
    /\ currentDatabase = Null
    /\ queryResult =
          [RowsResponse(<<"id", "status">>) EXCEPT
              !.rows = [i \in 1..MaxShown |->
                           [ref |-> i, cells |-> RowCells(<<"id", "status">>, i)]]]
    /\ queryError = NoError
    /\ isExecuting = FALSE
    /\ queryContext = TableContext("orders", PrimaryKeysOf("orders"))
    /\ query = "SELECT * FROM orders LIMIT 100; "
    /\ editingRowIndex = NoIndex
    /\ editData = EmptyObject
    /\ isSaving = FALSE
    /\ deleteModal = HiddenModal
    /\ searchTerm = ""
    /\ sortConfig = NoSort
    /\ quickActions = {}
    /\ execCalls = {}
    /\ updateCalls = {}
    /\ deleteCalls = {}
    /\ history = <<>>
    /\ lastQuickAction = NoQuickAction /\ lastExecuted = NoExecution
    /\ lastMutation = NoMutation
    /\ displayed = NoDisplay
    /\ InitNoServiceCall /\ InitExplorer

NextView ==
    \/ \E term \in SearchTerms : setSearchTerm(term) /\ Undisplayed
    \/ requestSort("id") /\ Undisplayed
    \/ \E index \in 0..(MaxShown - 1) : startEdit(index) /\ Undisplayed
    \/ \E value \in EditValues : handleEditChange("status", value) /\ Undisplayed
    \/ cancelEdit /\ Undisplayed
    \/ \E index \in 0..(MaxShown - 1) : saveEdit(index) /\ Undisplayed
    \/ \E call \in updateCalls, outcome \in Outcomes :
          UpdateReturn(call, outcome) /\ Undisplayed

SpecView == InitView /\ [][NextView]_vars

(***************************************************************************)
(* The explorer across connections and databases: the mysql server and a   *)
(* stored connection, with calls to the backend that overlap.              *)
(***************************************************************************)
MaxLoads == 2           \* explorer calls awaiting the backend at one time

Connections == {<<Symbolic("mysql"), Null>>, <<Stored(1), ExampleMysql>>}

WithinLoadBounds ==
    Cardinality(listLoads) + Cardinality(objectLoads) + Cardinality(dbDeletes) < MaxLoads

\* the explorer is mounted for the mysql server and has asked for its databases
InitBrowse ==
    /\ InitNoResolverCall
    /\ InitApp
    /\ lastQuickAction = NoQuickAction
    /\ lastExecuted = NoExecution
    /\ lastMutation = NoMutation
    /\ displayed = NoDisplay
    /\ InitNoServiceCall
    /\ expandedTables = {}
    /\ tableDetails = [t \in {} |-> <<>>]
    /\ detailLoads = {}
    /\ lastFailure = NoFailure
    /\ testStatus = ""
    /\ testMessage = ""
    /\ objects = NoObjects
    /\ loading = FALSE
    /\ toast = NoToast
    /\ databases = <<>>
    /\ listLoads = {[selectedDatabase |-> Symbolic("mysql"), connection_string |-> Null]}
    /\ objectLoads = {}
    /\ dbDeletes = {}
    /\ fetched = NotFetched

NextBrowse ==
    \/ \E c \in Connections : WithinLoadBounds /\ handleDatabaseTypeChange(c[1], c[2])
    \/ \E i \in 1..Len(databases), answer \in BOOLEAN :
          WithinLoadBounds /\ handleSelectDatabase(databases[i], answer)
    \/ \E i \in 1..Len(databases) : WithinLoadBounds /\ confirmDelete(databases[i])
    \/ \E call \in dbDeletes, ok \in BOOLEAN : DeleteDatabaseReturn(call, ok)
    \/ WithinLoadBounds /\ handleRefresh
    \/ \E call \in listLoads, ok \in BOOLEAN : LoadDatabaseListReturn(call, ok)
    \/ \E call \in objectLoads, ok \in BOOLEAN :
          LoadDatabaseObjectsJoin(call,
              IF ok THEN CatalogOf(call.selectedDatabase, call.database)
              ELSE [CatalogOf(call.selectedDatabase, call.database)
                       EXCEPT !["tables"] = FetchFailed("access denied")],
              "tables")

SpecBrowse == InitBrowse /\ [][NextBrowse]_vars

(***************************************************************************)
(* Expanding tables while moving between the two databases of the mysql    *)
(* server, whose database list has been loaded.                            *)
(***************************************************************************)
WithinDetailBounds == Cardinality(objectLoads) + Cardinality(detailLoads) < MaxLoads

InitDetails ==
    /\ InitNoResolverCall
    /\ InitApp
    /\ lastQuickAction = NoQuickAction
    /\ lastExecuted = NoExecution
    /\ lastMutation = NoMutation
    /\ displayed = NoDisplay
    /\ InitNoServiceCall
    /\ expandedTables = {}
    /\ tableDetails = [t \in {} |-> <<>>]
    /\ detailLoads = {}
    /\ lastFailure = NoFailure
    /\ testStatus = ""
    /\ testMessage = ""
    /\ objects = NoObjects
    /\ loading = FALSE
    /\ toast = NoToast
    /\ databases = DatabasesOf(Symbolic("mysql"))
    /\ listLoads = {}
    /\ objectLoads = {}
    /\ dbDeletes = {}
    /\ fetched = NotFetched

NextDetails ==
    \/ \E i \in 1..Len(databases), answer \in BOOLEAN :
          WithinDetailBounds /\ handleSelectDatabase(databases[i], answer)
    \/ \E call \in objectLoads :
          LoadDatabaseObjectsJoin(call, CatalogOf(call.selectedDatabase, call.database),
                                  "tables")
    \/ \E t \in Range(objects["tables"]) : WithinDetailBounds /\ toggleTableExpansion(t)
    \/ \E call \in detailLoads, ok \in BOOLEAN : TableDetailsJoin(call, ok, "access denied")

SpecDetails == InitDetails /\ [][NextDetails]_vars

(***************************************************************************)
(* Reading a connection string of the documented form                      *)
(* scheme[+driver]://user:password@host[:port]/database[?options].         *)
(***************************************************************************)
SchemeOf(str) == Split(str, SchemeSeparator)[1]
AfterScheme(str) == SubSeq(str, IndexOf(str, SchemeSeparator) + 4, Len(str))
CredentialsAndHostOf(str) == AuthorityOf(AfterScheme(str))
PathAndQueryOf(str) ==
    SubSeq(AfterScheme(str), Len(CredentialsAndHostOf(str)) + 1, Len(AfterScheme(str)))
QueryOf(str) ==
    LET pq == PathAndQueryOf(str)
        q == IndexOf(pq, <<"?">>)
    IN  IF q = -1 THEN <<>> ELSE SubSeq(pq, q + 1, Len(pq))
DatabaseOf(str) ==
    LET pq == PathAndQueryOf(str)
        q == IndexOf(pq, <<"?">>)
    IN  SubSeq(pq, 2, IF q = -1 THEN Len(pq) ELSE q)
BeforeDatabaseOf(str) == SchemeOf(str) \o SchemeSeparator \o CredentialsAndHostOf(str)


Unmatched(str) ==
    \/ IsFalsy(str)
    \/ /\ ~StartsWith(str, StrMysql)
       /\ ~StartsWith(str, StrPostgres)
       /\ ~StartsWith(str, StrMssql)

\* C4: a raw connection string is classified by its scheme prefix: mysql* is
\* mysql, postgres* (postgresql included) is postgres, mssql* is sqlserver,
\* and the three example strings of the specification classify accordingly.
C4_ClassifiedByPrefix ==
    dbType # NotCalled =>
        /\ connectionString # Null /\ StartsWith(connectionString, StrMysql)
              => dbType = "mysql"
        /\ connectionString # Null /\ StartsWith(connectionString, StrPostgres)
              => dbType = "postgres"
        /\ connectionString # Null /\ StartsWith(connectionString, StrMssql)
              => dbType = "sqlserver"
        /\ connectionString = ExampleMysql => dbType = "mysql"
        /\ connectionString = ExamplePostgres => dbType = "postgres"
        /\ connectionString = ExampleMssql => dbType = "sqlserver"

C4_Witness == connectionString = ExampleMssql /\ dbType = "sqlserver"

\* C5: classification is total: every input, null, "" and an unmatched scheme
\* included, yields one of the three dialects, and mysql when nothing matches.
C5_ClassificationTotal ==
    dbType # NotCalled =>
        /\ dbType \in Dialects
        /\ Unmatched(connectionString) => dbType = "mysql"

C5_Witness == connectionString = SqliteConn /\ dbType = "mysql"

\* C6: retargeting a well-formed connection string to a non-empty database
\* name keeps scheme, driver, user, password, host and port, makes the
\* database segment the new name, and keeps a SQL Server ?driver= suffix.
C6_RetargetChangesOnlyDatabase ==
    (resolved.called /\ connectionString \in WellFormedConnStrings /\ ~IsFalsy(dbName)) =>
        /\ ~resolved.threw
        /\ SchemeOf(resolved.value) = SchemeOf(connectionString)
        /\ CredentialsAndHostOf(resolved.value) = CredentialsAndHostOf(connectionString)
        /\ DatabaseOf(resolved.value) = dbName
        /\ (getDbTypeFromStr(connectionString) = "sqlserver"
              /\ QueryOf(connectionString) = DriverQuery)
              => QueryOf(resolved.value) = DriverQuery

\* C7: for every dialect a ?query suffix is kept verbatim after the new
\* database segment: the result is <before the database>/<newDb>?<query>.
C7_QueryStringPreserved ==
    (/\ resolved.called
     /\ connectionString \in WellFormedConnStrings
     /\ ~IsFalsy(dbName)
     /\ QueryOf(connectionString) # <<>>) =>
        /\ ~resolved.threw
        /\ resolved.value =
              BeforeDatabaseOf(connectionString) \o <<"/">> \o dbName
                  \o QueryOf(connectionString)

\* C8: retargeting a connection string the parser rejects fails with an
\* error; no connection string, repaired or original, is returned for it.
C8_MalformedRejected ==
    (resolved.called /\ connectionString \in MalformedConnStrings /\ ~IsFalsy(dbName)) =>
        resolved.threw

InFlightMutations == {c.request : c \in updateCalls \cup deleteCalls}

\* C1: the pk_data of every update or delete sent from the grid holds a
\* defined value for every primary-key column of the target table.
C1_FullPrimaryKeySent ==
    \A r \in InFlightMutations :
        \A pk \in Range(PrimaryKeysOf(r.table_name)) :
            pk \in DOMAIN r.pk_data /\ r.pk_data[pk] # Undefined

\* C2: no update or delete is sent for a table context without primary-key
\* columns: the identity the handlers build is never empty.
C2_EmptyIdentityRefused ==
    \A r \in InFlightMutations : DOMAIN r.pkData # {}

\* C3: the new_data of every update sent from the grid holds no primary-key
\* column of the table context.
C3_PrimaryKeyColumnsDropped ==
    \A c \in updateCalls :
        (DOMAIN c.request.new_data) \cap DOMAIN c.request.pkData = {}

\* the dialect a connection target classifies to
DialectOf(sel, conn) ==
    IF sel.kind = "string" /\ sel.name \in Dialects THEN sel.name
    ELSE getDbTypeFromStr(conn)

\* C9: the SQL a quick action loads is the template of the dialect the target
\* classifies to; a stored connection gets the SQL of its dialect's server.
C9_QuickActionUsesTargetDialect ==
    (lastQuickAction.ended = "returned" /\ ~IsFalsySql(lastQuickAction.sql)) =>
        lastQuickAction.sql =
            generateSQL(Symbolic(DialectOf(selectedDatabase, customConnection)),
                        lastQuickAction.action, lastQuickAction.objectType,
                        lastQuickAction.objectName)

\* the templates generateSQL defines
TemplateDefined(action, objectType) ==
    \/ action \in {"select100", "count", "describe", "selectAll"}
    \/ action = "showCreate"
          /\ objectType \in {"views", "procedures", "functions", "triggers"}
    \/ action = "execute" /\ objectType \in {"procedures", "functions"}

RequestedUndefinedTemplate ==
    /\ lastQuickAction.ended # "no"
    /\ ~TemplateDefined(lastQuickAction.action, lastQuickAction.objectType)

SystemCatalogs(str) ==
    IF StartsWith(str, StrMysql)
    THEN {"information_schema", "mysql", "performance_schema", "sys"}
    ELSE IF StartsWith(str, StrPostgres) THEN {"postgres"}
    ELSE {}

RawNames == [i \in 1..Len(rawResult.rows) |-> rawResult.rows[i][1]]
IsUserDatabase(name) == name \notin SystemCatalogs(connectionString)

\* C11: for a raw connection string of any of the three dialects getDatabases
\* returns the first-column values of the raw rows in their order without
\* the dialect's system catalogs, every other name as often as in the rows.
C11_DatabasesFiltered ==
    (databaseList.called /\ ~databaseList.threw) =>
        databaseList.value = SelectSeq(RawNames, IsUserDatabase)

C11_Witness ==
    /\ databaseList.called /\ ~databaseList.threw
    /\ StartsWith(connectionString, StrPostgres)
    /\ RawNames = <<"postgres", "shop">>
    /\ databaseList.value = <<"shop">>

\* C12: when the five fetches of loadDatabaseObjects are joined and some of
\* them failed, the categories that were fetched are stored in objects.
C12_PartialSuccessKept ==
    \A c \in Categories : fetched[c].ok => objects[c] = fetched[c].names

\* C13: at most one executeQuery call of handleExecuteQuery is outstanding at
\* any time, whatever the operator does with the Execute button and
\* Ctrl+Enter.
C13_OneExecutionInFlight ==
    Cardinality({c \in execCalls : c.stage = "executeQuery"}) <= 1

\* C14: every handleExecuteQuery call has called addHistory exactly once when
\* it ends, whether executeQuery answered with success, answered with
\* success=false or threw, and whether or not addHistory failed; no call has
\* called it more than once.
C14_OneHistoryCallPerExecution ==
    /\ lastExecuted.stage = "done" => lastExecuted.recorded = 1
    /\ \A c \in execCalls :
          c.recorded = (IF c.stage = "executeQuery" THEN 0 ELSE 1)

C14_Witness ==
    /\ lastExecuted.stage = "done"
    /\ lastExecuted.result = "success"
    /\ ~lastExecuted.stored
    /\ lastExecuted.recorded = 1

C16_StatusReflectsOutcome ==
    /\ \A c \in execCalls :
          c.stage = "addHistory" => ((c.status = "success") <=> (c.result = "success"))
    /\ lastExecuted.stage = "done" =>
          ((lastExecuted.status = "success") <=> (lastExecuted.result = "success"))

\* C17: when addHistory rejects, handleExecuteQuery still runs to its end
\* and leaves queryResult and queryError as the query itself set them.
C17_HistoryFailureSwallowed ==
    [][\A call \in execCalls :
          HistoryReturn(call, FALSE) =>
              /\ queryResult' = queryResult
              /\ queryError' = queryError
              /\ call \notin execCalls'
              /\ ~isExecuting']_vars

C17_Witness ==
    /\ lastExecuted.stage = "done"
    /\ ~lastExecuted.stored
    /\ lastExecuted.result = "failed"
    /\ queryError = NoError
    /\ ~queryResult.isNull

\* C18: every failed fetch is shown to the operator in an error message that
\* contains the backend's message verbatim.
C18_FailureShownVerbatim ==
    lastFailure.operation # "none" =>
        /\ lastFailure.shown.kind = "error"
        /\ Includes(lastFailure.shown.text, lastFailure.message)

\* C19: an update or delete that reports a number of affected rows other
\* than 1 is shown to the operator as a warning, not as a failed mutation.
C19_RowCountMismatchWarned ==
    (lastMutation.kind # "none" /\ lastMutation.outcome # "throws"
        /\ lastMutation.rows_affected # 1)
    => lastMutation.level = "warning"

\* C20: no QueryResult held in queryResult has both rows and rows_affected.
C20_RowsExcludeRowsAffected ==
    ~(queryResult.hasRows /\ queryResult.hasRowsAffected)

\* the connection strings the resolver's URL parser accepts
Parses(str) ==
    /\ ~IsFalsy(str)
    /\ UrlParses(Replace(Replace(Replace(str, MysqlPrefix, HttpPrefix),
                                 PostgresPrefix, HttpPrefix),
                         MssqlPrefix, HttpPrefix))
PlainNames == {n \in DbNames : ~IsFalsy(n) /\ "/" \notin Range(n) /\ "?" \notin Range(n)}

C28_TestReflectsResult ==
    lastServiceCall.origin = "handleTestConnection" =>
        /\ testStatus = "success" => (~rawResult.rejected /\ rawResult.success)
        /\ (rawResult.rejected \/ ~rawResult.success) =>
              (testStatus = "error" /\ Includes(testMessage, rawResult.message))

\* C29: every handleExecuteQuery call ends once its requests are settled, and
\* the step that ends it leaves isExecuting false, whether executeQuery
\* answered with success, with success=false or threw, and whether or not
\* addHistory failed.
C29_IsExecutingReset ==
    /\ [][\A call \in execCalls :
            (\A c \in execCalls' : c.id # call.id) => ~isExecuting']_vars
    /\ \A id \in 1..MaxEntries :
          (\E c \in execCalls : c.id = id) ~> (\A c \in execCalls : c.id # id)

C29_Witness ==
    /\ lastExecuted.stage = "done"
    /\ lastExecuted.result = "threw"
    /\ ~lastExecuted.stored
    /\ execCalls = {}
    /\ ~isExecuting

\* the table a statement selects from
TableOf(statement) == IF Includes(statement, "FROM orders") THEN "orders" ELSE "logs"

\* C21: whenever the grid shows rows and row editing is enabled, the table
\* context used for updates and deletes names the table the displayed rows
\* were selected from.
C21_ContextIsDisplayedTable ==
    (TableShown /\ CanEdit /\ Len(processedRows) > 0) =>
        queryContext.tableName = TableOf(displayed.statement)

\* C25: once every execution has settled, queryResult and queryError hold the
\* outcome of the most recently submitted one, and of no earlier one.
C25_LatestSubmissionShown ==
    (execCalls = {} /\ displayed.submitted # 0) =>
        /\ displayed.result \in {0, displayed.submitted}
        /\ displayed.error \in {0, displayed.submitted}
        /\ displayed.result # 0 \/ displayed.error # 0

\* C22: a successful handleUpdateRow changes, in queryResult.rows, the row
\* whose primary-key values equal the pk_data sent, under every search term
\* and sort order, and leaves the values of every other row as they were.
C22_EditedRowModified ==
    [][\A call \in updateCalls :
          UpdateReturn(call, "truthy") =>
              /\ Len(queryResult'.rows) = Len(queryResult.rows)
              /\ \A i \in 1..Len(queryResult.rows) :
                    queryResult'.rows[i].cells =
                        IF \A pk \in DOMAIN call.request.pkData :
                              Get(queryResult.rows[i].cells, pk) = call.request.pkData[pk]
                        THEN Merge(queryResult.rows[i].cells, call.newRowData)
                        ELSE queryResult.rows[i].cells]_vars

\* C23: whenever no explorer call awaits the backend, the database App holds
\* as selected (the one handleExecuteQuery retargets to) is the database the
\* explorer shows as active.
C23_SelectionsAgree ==
    (listLoads = {} /\ objectLoads = {} /\ dbDeletes = {}) =>
        currentDbName = currentDatabase

\* C24: once every load has settled, and none has failed, the database list
\* is that of the selected connection and the objects are those of the
\* selected database, whatever the order of the answers.
C24_LoadsOfCurrentTarget ==
    (listLoads = {} /\ objectLoads = {} /\ dbDeletes = {} /\ lastFailure = NoFailure) =>
        /\ databases = DatabasesOf(selectedDatabase)
        /\ ~IsFalsy(currentDatabase) =>
              objects = [c \in Categories |->
                            CatalogOf(selectedDatabase, currentDatabase)[c].names]

\* C26: once the loads have settled, the details shown for an expanded table
\* are those fetched for that table in the selected database; details cached for a same-named table of
\* another database are not shown.
C26_DetailsOfCurrentDatabase ==
    \A t \in expandedTables :
        (t \in Range(objects["tables"]) /\ t \in DOMAIN tableDetails
            /\ ~IsFalsy(currentDatabase) /\ objectLoads = {} /\ detailLoads = {})
        => tableDetails[t] = DetailsIn(currentDatabase, t)

====
